---- MODULE Spec2Model ----
(***************************************************************************)
(* Model of the photo/result orchestration of the eBay easy lister:        *)
(*   - POST /api/analyze of server.js (src/unnamed/part_000) and of        *)
(*     new-server.js, with callOpenAI and hostPhotoToServer;               *)
(*   - postSingleListing / postAllListings / postListingsBatch of          *)
(*     ebayPostingService.js;                                              *)
(*   - parseGeneralResponse of utils/responseParser.js;                    *)
(*   - parseEbayResponse, escapeXml, getEbayConditionID, getEbayCategoryID *)
(*     and the two request builders of services/ebayApi.js;                *)
(*   - posting one listing: postSingleListing / postBookToEbay, the two    *)
(*     listing endpoints of server.js and callEbayTradingAPI;              *)
(*   - the handlers of the results screen (components/Results.js).         *)
(* JavaScript values: a missing property is Undefined, null is Null.       *)
(* Array positions are 1-based here; the code's index is position - 1.     *)
(***************************************************************************)
EXTENDS Integers, Sequences, FiniteSets, TLC

\* ------------------------------------------------------------------ bounds
MaxPhotos == 2
MaxListings == 2
MaxResponseLen == 5

\* --------------------------------------------------------------- JS values
Undefined == "undefined"
Null == "null"

\* !v for the string-or-missing values of the model
Falsy(v) == v \in {Undefined, Null, ""}

VARIABLES
  hostConfigured,   \* process.env.EXTERNAL_PHOTO_HOST_URL is set
  server,           \* which server file handles the request
  photoCount,       \* req.files.length
  prompt,           \* req.body.prompt
  pc,               \* position of the /api/analyze handler
  modelState,       \* the callOpenAI promise: none, inflight, ok, failed
  modelText,        \* response.choices[0].message.content
  upload,           \* per photo: none, inflight, settled
  uploadRes,        \* per photo: the settled hostPhotoToServer promise
  hostReply,        \* per photo: what the image host answered
  completionOrder,  \* photo positions in the order their uploads settled
  hostedAcc,        \* new-server.js: the hostedPhotos array being built
  cur,              \* new-server.js: loop position (i + 1)
  response,         \* what res.status(..).json(..) sent
  modelCalls,       \* model requests launched
  uploadCalls       \* image-host requests launched

VARIABLES
  listings,         \* postAllListings: the listingsArray argument
  ppc,              \* position of postAllListings
  post,             \* per listing: none, inflight, settled
  postRes,          \* per listing: the settled postSingleListing promise
  apiReply,         \* per listing: what /api/list-to-ebay-with-urls answered
  fetchCalls,       \* positions of the listings a request was made for
  postOrder,        \* listing positions in the order their posts settled
  summary           \* what postAllListings returned

postVars == <<listings, ppc, post, postRes, apiReply, fetchCalls, postOrder, summary>>

VARIABLES
  rawResponse,      \* the model's text handed to the parser, as tokens
  extractPc,        \* ready, done
  extractor,        \* the parser that ran
  extracted         \* what the parser returned or threw

extractVars == <<rawResponse, extractPc, extractor, extracted>>

VARIABLES
  xmlParts,         \* the elements the Trading API response was made of
  xmlResponse,      \* parseEbayResponse's argument
  parsePc,          \* idle, ready, done
  parsed            \* what parseEbayResponse returned or threw

parseVars == <<xmlParts, xmlResponse, parsePc, parsed>>

VARIABLES
  buildListing,     \* the listing argument of the request builder
  buildPhotoUrls,   \* its photoUrls argument
  buildVariant,     \* general: buildEbayXMLRequest, book: the book builder
  buildPc,          \* idle, ready, done
  built             \* what the builder returned or threw

buildVars == <<buildListing, buildPhotoUrls, buildVariant, buildPc, built>>

VARIABLES
  listPath,         \* general: postSingleListing, book: postBookToEbay
  listListing,      \* the listing the client posts
  listPc,           \* idle, client, endpoint, trading, responded, done
  tradingReply,     \* what the Trading API call came back with
  tradingCalls,     \* Trading API requests made
  conditionID,      \* the conditionID the builder computed
  pictureURLs,      \* the texts of the PictureURL elements the builder made
  serverResult,     \* ebayResult: what createEbay...Listing returned or threw
  endpointRes,      \* the endpoint's HTTP response
  clientRes         \* what the client's posting function returned or threw

listVars == <<listPath, listListing, listPc, tradingReply, tradingCalls,
              conditionID, pictureURLs, serverResult, endpointRes, clientRes>>

VARIABLES
  generatedListings, \* PhotoUploadScreen state: the ids of the listings shown
  created,           \* listings created so far (ids are never reused)
  listingEdits,      \* window.listingEdits: per id the edit it holds, 0 none
  isPosting,         \* per card: its post is in flight
  postData,          \* per card: the data its post in flight was made with
  postingAll,        \* Results state: a batch is in flight
  listingsToPost,    \* the batch in flight: id and data of each listing
  submitted,         \* per id: creation requests made for it
  ebayItems          \* the items created on the marketplace: id and data

uiVars == <<generatedListings, created, listingEdits, isPosting, postData,
            postingAll, listingsToPost, submitted, ebayItems>>

VARIABLES
  bListings,        \* postListingsBatch: the listingsArray argument
  bSize,            \* postListingsBatch: the batchSize argument
  bI,               \* the loop variable i
  bPc,              \* idle, awaitBatch, delay, done
  bPost,            \* per listing: none, inflight, settled
  bPostRes,         \* per listing: the settled postSingleListing promise
  bWaited,          \* the values of i whose batch started after the delay
  bAcc,             \* the results object being aggregated
  bOut              \* what postListingsBatch returned

batchVars == <<bListings, bSize, bI, bPc, bPost, bPostRes, bWaited, bAcc, bOut>>

analyzeVars == <<hostConfigured, server, photoCount, prompt, pc, modelState,
                 modelText, upload, uploadRes, hostReply, completionOrder,
                 hostedAcc, cur, response, modelCalls, uploadCalls>>

Photos == 1..MaxPhotos
Prompts == {Undefined, "", "Describe this item"}
ModelTexts == {"{\"title\":\"Lamp\"}", "I cannot help with that"}
HostReplies == {"url", "filename", "empty", "nullbody",
                "neterr", "timeout", "status500", "toolarge"}
FailingReplies == {"neterr", "timeout", "status500", "toolarge"}

\* photo.originalname || `photo_${index}.jpg` (the model's photos carry no name)
PhotoName(pos) == "photo_" \o ToString(pos - 1) \o ".jpg"

\* ------------------------------------------------------- hostPhotoToServer
\* axios.post(externalHostUrl, formData, {timeout, maxContentLength, maxBodyLength})
AxiosPost(reply, name) ==
  CASE reply = "url" ->
         [threw |-> FALSE, message |-> Undefined, dataNull |-> FALSE,
          url |-> "https://img.host/" \o name, filename |-> Undefined]
    [] reply = "filename" ->
         [threw |-> FALSE, message |-> Undefined, dataNull |-> FALSE,
          url |-> Undefined, filename |-> name]
    [] reply = "empty" ->
         [threw |-> FALSE, message |-> Undefined, dataNull |-> FALSE,
          url |-> Undefined, filename |-> Undefined]
    [] reply = "nullbody" ->
         [threw |-> FALSE, message |-> Undefined, dataNull |-> TRUE,
          url |-> Undefined, filename |-> Undefined]
    [] reply = "neterr" ->
         [threw |-> TRUE, message |-> "Network Error", dataNull |-> TRUE,
          url |-> Undefined, filename |-> Undefined]
    [] reply = "timeout" ->
         [threw |-> TRUE, message |-> "timeout of 120000ms exceeded", dataNull |-> TRUE,
          url |-> Undefined, filename |-> Undefined]
    [] reply = "status500" ->
         [threw |-> TRUE, message |-> "Request failed with status code 500", dataNull |-> TRUE,
          url |-> Undefined, filename |-> Undefined]
    [] reply = "toolarge" ->
         [threw |-> TRUE, message |-> "Request body larger than maxBodyLength limit", dataNull |-> TRUE,
          url |-> Undefined, filename |-> Undefined]

\* a settled promise of hostPhotoToServer
Fulfilled(success, hostedUrl, error) ==
  [state |-> "fulfilled", success |-> success, hostedUrl |-> hostedUrl,
   error |-> error, reason |-> Undefined]
Rejected(message) ==
  [state |-> "rejected", success |-> FALSE, hostedUrl |-> Undefined,
   error |-> Undefined, reason |-> message]
Pending == [state |-> "pending", success |-> FALSE, hostedUrl |-> Undefined,
            error |-> Undefined, reason |-> Undefined]

\* the try block of hostPhotoToServer: what it returns, or what it throws
HostTry(configured, reply, name) ==
  IF ~configured
  THEN [threw |-> TRUE, message |-> "EXTERNAL_PHOTO_HOST_URL not configured",
        hostedUrl |-> Undefined]
  ELSE LET r == AxiosPost(reply, name) IN
       IF r.threw
       THEN [threw |-> TRUE, message |-> r.message, hostedUrl |-> Undefined]
       ELSE IF r.dataNull
       THEN [threw |-> TRUE, hostedUrl |-> Undefined,
             message |-> "Cannot read properties of null (reading 'url')"]
       ELSE [threw |-> FALSE, message |-> Undefined,
             hostedUrl |-> IF Falsy(r.url) /\ ~Falsy(r.filename)
                           THEN "https://gamesighter.com/uploads/" \o r.filename
                           ELSE r.url]

\* mutant: the configuration check sits outside the try block and the catch
\* rethrows, so a failure rejects the promise
hostPhotoToServer_Rethrows(configured, reply, name) ==
  LET b == HostTry(configured, reply, name) IN
  IF b.threw THEN Rejected(b.message)
  ELSE Fulfilled(TRUE, b.hostedUrl, Undefined)

\* hostPhotoToServer: the catch block turns every throw into a result
hostPhotoToServer(configured, reply, name) ==
  LET b == HostTry(configured, reply, name) IN
  IF b.threw THEN Fulfilled(FALSE, Null, b.message)
  ELSE Fulfilled(TRUE, b.hostedUrl, Undefined)

\* ------------------------------------------------------------ /api/analyze
\* .then(result => ({...result, index, originalFilename}))
\* .catch(error => ({success: false, error: error.message, index, originalFilename}))
UploadTask(p, pos) ==
  IF p.state = "fulfilled"
  THEN [success |-> p.success, hostedUrl |-> p.hostedUrl, error |-> p.error,
        index |-> pos - 1, originalFilename |-> PhotoName(pos)]
  ELSE [success |-> FALSE, hostedUrl |-> Undefined, error |-> p.reason,
        index |-> pos - 1, originalFilename |-> PhotoName(pos)]

\* uploadResults.map(result => result.success ? {url, ..} : {url: null, error, ..})
ToHostedPhoto(result) ==
  IF result.success
  THEN [url |-> result.hostedUrl, error |-> Undefined,
        originalFilename |-> result.originalFilename, index |-> result.index]
  ELSE [url |-> Null, error |-> result.error,
        originalFilename |-> result.originalFilename, index |-> result.index]

\* mutant: the results are collected as the uploads complete
JoinedUploads_CompletionOrder(n, res, order) ==
  [k \in 1..n |-> UploadTask(res[order[k]], order[k])]

\* Promise.all(uploadPromises): the results in the order of the promises
JoinedUploads(n, res, order) ==
  [k \in 1..n |-> UploadTask(res[k], k)]

\* mutant: only the photos are validated
ValidationError_PhotosOnly(n, p) ==
  IF n = 0 THEN "No photos provided" ELSE Undefined

\* the two early returns of the handler; Undefined when the request passes
ValidationError(n, p) ==
  IF n = 0 THEN "No photos provided"
  ELSE IF Falsy(p) THEN "No prompt provided"
  ELSE Undefined

NoResponse ==
  [status |-> 0, keys |-> {}, success |-> FALSE, rawResponse |-> Undefined,
   photoCount |-> 0, hostedPhotos |-> <<>>, error |-> Undefined]

\* res.status(code).json({ error: message })
ErrorResponse(code, message) ==
  [status |-> code, keys |-> {"error"}, success |-> FALSE, rawResponse |-> Undefined,
   photoCount |-> 0, hostedPhotos |-> <<>>, error |-> message]

\* mutant: the model's text is trimmed to its JSON before it is returned
SuccessResponse_Cleaned(text, n, hosted) ==
  [status |-> 200, keys |-> {"success", "rawResponse", "listingType", "photoCount", "hostedPhotos"},
   success |-> TRUE, rawResponse |-> IF text = "I cannot help with that" THEN "{}" ELSE text,
   photoCount |-> n, hostedPhotos |-> hosted, error |-> Undefined]

\* res.json({ success: true, rawResponse, listingType, photoCount, hostedPhotos })
SuccessResponse(text, n, hosted) ==
  [status |-> 200, keys |-> {"success", "rawResponse", "listingType", "photoCount", "hostedPhotos"},
   success |-> TRUE, rawResponse |-> text,
   photoCount |-> n, hostedPhotos |-> hosted, error |-> Undefined]

AnalyzeInit ==
  /\ hostConfigured \in BOOLEAN
  /\ server = "none"
  /\ photoCount = 0
  /\ prompt = Undefined
  /\ pc = "idle"
  /\ modelState = "none"
  /\ modelText = Undefined
  /\ upload = [i \in Photos |-> "none"]
  /\ uploadRes = [i \in Photos |-> Pending]
  /\ hostReply = [i \in Photos |-> "none"]
  /\ completionOrder = <<>>
  /\ hostedAcc = <<>>
  /\ cur = 0
  /\ response = NoResponse
  /\ modelCalls = 0
  /\ uploadCalls = 0

\* server.js: the handler up to `await Promise.all([...])`
ServerAnalyze(n, p) ==
  /\ pc = "idle"
  /\ server' = "server"
  /\ photoCount' = n
  /\ prompt' = p
  /\ UNCHANGED <<hostConfigured, modelText, hostReply, hostedAcc, cur>>
  /\ IF ValidationError(n, p) /= Undefined
     THEN /\ response' = ErrorResponse(400, ValidationError(n, p))
          /\ pc' = "responded"
          /\ UNCHANGED <<modelState, upload, uploadRes, completionOrder,
                         modelCalls, uploadCalls>>
     ELSE /\ modelState' = "inflight"
          /\ modelCalls' = modelCalls + 1
          /\ IF hostConfigured
             THEN /\ upload' = [i \in Photos |-> IF i <= n THEN "inflight" ELSE "none"]
                  /\ uploadCalls' = uploadCalls + n
                  /\ UNCHANGED <<uploadRes, completionOrder>>
             ELSE /\ upload' = [i \in Photos |-> IF i <= n THEN "settled" ELSE "none"]
                  /\ uploadRes' = [i \in Photos |->
                        IF i <= n THEN hostPhotoToServer(FALSE, "none", PhotoName(i))
                        ELSE Pending]
                  /\ completionOrder' = [k \in 1..n |-> k]
                  /\ UNCHANGED uploadCalls
          /\ pc' = "awaitAll"
          /\ UNCHANGED response
  /\ UNCHANGED <<postVars, extractVars, parseVars, buildVars, listVars, uiVars, batchVars>>

\* new-server.js: the handler up to `await callOpenAI(...)`
NewServerAnalyze(n, p) ==
  /\ pc = "idle"
  /\ server' = "new-server"
  /\ photoCount' = n
  /\ prompt' = p
  /\ UNCHANGED <<hostConfigured, modelText, hostReply, hostedAcc, cur, upload,
                 uploadRes, completionOrder, uploadCalls>>
  /\ IF ValidationError(n, p) /= Undefined
     THEN /\ response' = ErrorResponse(400, ValidationError(n, p))
          /\ pc' = "responded"
          /\ UNCHANGED <<modelState, modelCalls>>
     ELSE /\ modelState' = "inflight"
          /\ modelCalls' = modelCalls + 1
          /\ pc' = "awaitModel"
          /\ UNCHANGED response
  /\ UNCHANGED <<postVars, extractVars, parseVars, buildVars, listVars, uiVars, batchVars>>

\* callOpenAI: the completion arrives and its content is returned
OpenAIResolves(t) ==
  /\ modelState = "inflight"
  /\ modelState' = "ok"
  /\ modelText' = t
  /\ UNCHANGED <<hostConfigured, server, photoCount, prompt, pc, upload, uploadRes,
                 hostReply, completionOrder, hostedAcc, cur, response,
                 modelCalls, uploadCalls>>
  /\ UNCHANGED <<postVars, extractVars, parseVars, buildVars, listVars, uiVars, batchVars>>

\* callOpenAI: the request fails and `OpenAI API error: ...` is thrown
OpenAIRejects ==
  /\ modelState = "inflight"
  /\ modelState' = "failed"
  /\ UNCHANGED <<hostConfigured, server, photoCount, prompt, pc, modelText, upload,
                 uploadRes, hostReply, completionOrder, hostedAcc, cur, response,
                 modelCalls, uploadCalls>>
  /\ UNCHANGED <<postVars, extractVars, parseVars, buildVars, listVars, uiVars, batchVars>>

\* the image host answers photo i and hostPhotoToServer settles
HostResponds(i, reply) ==
  /\ upload[i] = "inflight"
  /\ upload' = [upload EXCEPT ![i] = "settled"]
  /\ hostReply' = [hostReply EXCEPT ![i] = reply]
  /\ uploadRes' = [uploadRes EXCEPT ![i] = hostPhotoToServer(TRUE, reply, PhotoName(i))]
  /\ completionOrder' = Append(completionOrder, i)
  /\ UNCHANGED <<hostConfigured, server, photoCount, prompt, pc, modelState, modelText,
                 hostedAcc, cur, response, modelCalls, uploadCalls>>
  /\ UNCHANGED <<postVars, extractVars, parseVars, buildVars, listVars, uiVars, batchVars>>

AllUploadsSettled == \A i \in 1..photoCount : upload[i] = "settled"

\* server.js: Promise.all resolved; hostedPhotos is built and the response sent
ServerJoinResolved ==
  /\ pc = "awaitAll"
  /\ modelState = "ok"
  /\ AllUploadsSettled
  /\ LET uploadResults == JoinedUploads(photoCount, uploadRes, completionOrder)
         hostedPhotos == [k \in 1..photoCount |-> ToHostedPhoto(uploadResults[k])]
     IN response' = SuccessResponse(modelText, photoCount, hostedPhotos)
  /\ pc' = "responded"
  /\ UNCHANGED <<hostConfigured, server, photoCount, prompt, modelState, modelText,
                 upload, uploadRes, hostReply, completionOrder, hostedAcc, cur,
                 modelCalls, uploadCalls>>
  /\ UNCHANGED <<postVars, extractVars, parseVars, buildVars, listVars, uiVars, batchVars>>

\* mutant: the join settles every task (Promise.allSettled) and the handler
\* answers with whatever it has once the uploads are done
ServerJoinRejected_Settled ==
  /\ pc = "awaitAll"
  /\ modelState = "failed"
  /\ AllUploadsSettled
  /\ LET uploadResults == JoinedUploads(photoCount, uploadRes, completionOrder)
         hostedPhotos == [k \in 1..photoCount |-> ToHostedPhoto(uploadResults[k])]
     IN response' = SuccessResponse(Undefined, photoCount, hostedPhotos)
  /\ pc' = "responded"
  /\ UNCHANGED <<hostConfigured, server, photoCount, prompt, modelState, modelText,
                 upload, uploadRes, hostReply, completionOrder, hostedAcc, cur,
                 modelCalls, uploadCalls>>
  /\ UNCHANGED <<postVars, extractVars, parseVars, buildVars, listVars, uiVars, batchVars>>

\* server.js: Promise.all rejected with the model's error; the catch answers 500
ServerJoinRejected ==
  /\ pc = "awaitAll"
  /\ modelState = "failed"
  /\ response' = ErrorResponse(500, "OpenAI API error")
  /\ pc' = "responded"
  /\ UNCHANGED <<hostConfigured, server, photoCount, prompt, modelState, modelText,
                 upload, uploadRes, hostReply, completionOrder, hostedAcc, cur,
                 modelCalls, uploadCalls>>
  /\ UNCHANGED <<postVars, extractVars, parseVars, buildVars, listVars, uiVars, batchVars>>

\* new-server.js: start the upload of the photo at position k
StartUpload(k) ==
  IF hostConfigured
  THEN /\ upload' = [upload EXCEPT ![k] = "inflight"]
       /\ uploadCalls' = uploadCalls + 1
       /\ UNCHANGED <<uploadRes, completionOrder>>
  ELSE /\ upload' = [upload EXCEPT ![k] = "settled"]
       /\ uploadRes' = [uploadRes EXCEPT ![k] = hostPhotoToServer(FALSE, "none", PhotoName(k))]
       /\ completionOrder' = Append(completionOrder, k)
       /\ UNCHANGED uploadCalls

\* new-server.js: the model call returned; the upload loop starts with photo 0
NewServerModelDone ==
  /\ pc = "awaitModel"
  /\ modelState = "ok"
  /\ cur' = 1
  /\ StartUpload(1)
  /\ pc' = "awaitUpload"
  /\ UNCHANGED <<hostConfigured, server, photoCount, prompt, modelState, modelText,
                 hostReply, hostedAcc, response, modelCalls>>
  /\ UNCHANGED <<postVars, extractVars, parseVars, buildVars, listVars, uiVars, batchVars>>

\* new-server.js: the model call threw; the catch answers 500
NewServerModelFailed ==
  /\ pc = "awaitModel"
  /\ modelState = "failed"
  /\ response' = ErrorResponse(500, "OpenAI API error")
  /\ pc' = "responded"
  /\ UNCHANGED <<hostConfigured, server, photoCount, prompt, modelState, modelText,
                 upload, uploadRes, hostReply, completionOrder, hostedAcc, cur,
                 modelCalls, uploadCalls>>
  /\ UNCHANGED <<postVars, extractVars, parseVars, buildVars, listVars, uiVars, batchVars>>

\* new-server.js: one turn of the upload loop, and the response after the last
NewServerUploadDone ==
  /\ pc = "awaitUpload"
  /\ upload[cur] = "settled"
  /\ LET r == uploadRes[cur]
         entry == IF r.success
                  THEN [url |-> r.hostedUrl, error |-> Undefined,
                        originalFilename |-> PhotoName(cur), index |-> cur - 1]
                  ELSE [url |-> Null, error |-> r.error,
                        originalFilename |-> PhotoName(cur), index |-> cur - 1]
     IN IF r.state = "rejected"
        THEN \* catch (uploadError): the loop is left, the response still sent
             /\ response' = SuccessResponse(modelText, photoCount, hostedAcc)
             /\ pc' = "responded"
             /\ UNCHANGED <<hostedAcc, cur, upload, uploadRes, completionOrder, uploadCalls>>
        ELSE /\ hostedAcc' = Append(hostedAcc, entry)
             /\ IF cur < photoCount
                THEN /\ cur' = cur + 1
                     /\ StartUpload(cur + 1)
                     /\ UNCHANGED <<response, pc>>
                ELSE /\ response' = SuccessResponse(modelText, photoCount, Append(hostedAcc, entry))
                     /\ pc' = "responded"
                     /\ UNCHANGED <<cur, upload, uploadRes, completionOrder, uploadCalls>>
  /\ UNCHANGED <<hostConfigured, server, photoCount, prompt, modelState, modelText,
                 hostReply, modelCalls>>
  /\ UNCHANGED <<postVars, extractVars, parseVars, buildVars, listVars, uiVars, batchVars>>

AnalyzeNext ==
  \/ \E n \in 0..MaxPhotos, p \in Prompts : ServerAnalyze(n, p)
  \/ \E n \in 0..MaxPhotos, p \in Prompts : NewServerAnalyze(n, p)
  \/ \E t \in ModelTexts : OpenAIResolves(t)
  \/ OpenAIRejects
  \/ \E i \in Photos, reply \in HostReplies : HostResponds(i, reply)
  \/ ServerJoinResolved
  \/ ServerJoinRejected
  \/ NewServerModelDone
  \/ NewServerModelFailed
  \/ NewServerUploadDone

\* ------------------------------------------------------ claims on analyze
Responded == pc = "responded"
ValidRequest == photoCount >= 1 /\ ~Falsy(prompt)

\* the upload of photo i ended in a failure of the host, the network or the
\* configuration
UploadFailed(i) ==
  /\ upload[i] = "settled"
  /\ (~hostConfigured \/ hostReply[i] \in FailingReplies)

\* C1: when the model call of a valid request succeeded, the response carries
\* exactly photoCount hostedPhotos and the entry at position k has index k - 1
\* and is the entry of photo k, whatever order the uploads completed in.
C1_HostedPhotosInInputOrder ==
  (Responded /\ ValidRequest /\ modelState = "ok") =>
    /\ response.status = 200
    /\ "hostedPhotos" \in response.keys
    /\ Len(response.hostedPhotos) = photoCount
    /\ \A k \in 1..photoCount :
         /\ response.hostedPhotos[k].index = k - 1
         /\ response.hostedPhotos[k].originalFilename = PhotoName(k)

\* server.js answered two photos whose uploads completed in reverse order, the
\* first one failing
C1_Witness ==
  /\ Responded /\ server = "server" /\ response.status = 200
  /\ photoCount = 2
  /\ completionOrder = <<2, 1>>
  /\ hostReply[1] = "timeout" /\ hostReply[2] = "url"

\* C2: when the model call succeeded and every upload failed, the response is a
\* success whose rawResponse is the model's text, and every hostedPhotos entry
\* has url = null and an error.
C2_AllUploadsFailedStillSucceeds ==
  (Responded /\ ValidRequest /\ modelState = "ok"
     /\ \A i \in 1..photoCount : UploadFailed(i)) =>
    /\ response.status = 200 /\ response.success
    /\ response.rawResponse = modelText
    /\ modelText \in ModelTexts
    /\ Len(response.hostedPhotos) = photoCount
    /\ \A k \in 1..photoCount :
         /\ response.hostedPhotos[k].url = Null
         /\ ~Falsy(response.hostedPhotos[k].error)

\* two uploads failed in different ways and the model's text came back
C2_Witness ==
  /\ Responded /\ photoCount = 2 /\ modelState = "ok"
  /\ hostReply[1] = "neterr" /\ hostReply[2] = "status500"
  /\ response.rawResponse = "I cannot help with that"

\* C3: when the model call failed the response is a 500 carrying an error
\* message and neither rawResponse nor hostedPhotos, whatever the uploads did.
C3_ModelFailureFailsAnalyze ==
  (Responded /\ modelState = "failed") =>
    /\ response.status = 500
    /\ response.keys = {"error"}
    /\ ~Falsy(response.error)

\* the model call failed after every upload had succeeded
C3_Witness ==
  /\ Responded /\ modelState = "failed" /\ photoCount = 2
  /\ \A i \in 1..photoCount : upload[i] = "settled" /\ uploadRes[i].success
  /\ response.status = 500

\* C4: a request without photos or without a prompt is answered 400 and no
\* model call and no upload is ever launched for it.
C4_ValidationBeforeNetwork ==
  (pc /= "idle" /\ ~ValidRequest) =>
    /\ Responded
    /\ response.status = 400
    /\ response.keys = {"error"}
    /\ modelCalls = 0 /\ uploadCalls = 0
    /\ modelState = "none"
    /\ \A i \in Photos : upload[i] = "none"

\* photos were sent with an empty prompt
C4_Witness ==
  /\ Responded /\ photoCount = 2 /\ prompt = ""
  /\ response.status = 400 /\ response.error = "No prompt provided"

\* C5: every hostedPhotos entry of a response has exactly one of url and error
\* set.
C5_ExactlyOneOfUrlError ==
  response.status = 200 =>
    \A k \in 1..Len(response.hostedPhotos) :
      LET e == response.hostedPhotos[k] IN
      \/ ~Falsy(e.url) /\ e.error = Undefined
      \/ e.url = Null /\ ~Falsy(e.error)

\* C6: hostPhotoToServer never rejects, and every failure mode resolves to
\* success = false, hostedUrl = null and an error message.
C6_HostPhotoNeverThrows ==
  \A i \in Photos :
    upload[i] = "settled" =>
      /\ uploadRes[i].state = "fulfilled"
      /\ (UploadFailed(i) \/ hostReply[i] = "nullbody") =>
           /\ ~uploadRes[i].success
           /\ uploadRes[i].hostedUrl = Null
           /\ ~Falsy(uploadRes[i].error)

\* an oversized payload and a timeout, both captured
C6_Witness ==
  /\ upload[1] = "settled" /\ hostReply[1] = "toolarge"
  /\ upload[2] = "settled" /\ hostReply[2] = "timeout"
  /\ ~uploadRes[1].success /\ ~uploadRes[2].success


\* C21: no response is sent while the model call or an upload task of the
\* request is still in flight: when a valid request has been answered its
\* model call has completed and none of its photoCount uploads is in flight.
C21_ResponseAfterAllTasks ==
  (Responded /\ ValidRequest) =>
    /\ modelState \in {"ok", "failed"}
    /\ \A i \in 1..photoCount : upload[i] /= "inflight"

\* C22: once a valid request passed validation exactly one model call has been
\* launched and every one of the photoCount uploads has been started, with no
\* wait for the model call or for another upload.
C22_ModelAndUploadsConcurrent ==
  (pc /= "idle" /\ ValidRequest) =>
    /\ modelCalls = 1
    /\ \A i \in 1..photoCount : upload[i] /= "none"


\* ---------------------------------------------------- postSingleListing
Slots == 1..MaxListings

HostedOk == [url |-> "https://img.host/photo_0.jpg", error |-> Undefined]
HostedFailed == [url |-> Null, error |-> "Network Error"]
HostedUrlAndError == [url |-> "https://img.host/photo_1.jpg", error |-> "late failure"]
HostedNoUrl == [url |-> Undefined, error |-> Undefined]

\* the hostedPhotos / photos of the listings that are posted
ListingShapes ==
  { [hostedMissing |-> TRUE,  hostedPhotos |-> <<>>, photos |-> 0],
    [hostedMissing |-> TRUE,  hostedPhotos |-> <<>>, photos |-> 1],
    [hostedMissing |-> FALSE, hostedPhotos |-> <<>>, photos |-> 1],
    [hostedMissing |-> FALSE, hostedPhotos |-> <<HostedFailed>>, photos |-> 1],
    [hostedMissing |-> FALSE, hostedPhotos |-> <<HostedFailed, HostedNoUrl>>, photos |-> 2],
    [hostedMissing |-> FALSE, hostedPhotos |-> <<HostedUrlAndError>>, photos |-> 1],
    [hostedMissing |-> FALSE, hostedPhotos |-> <<HostedOk>>, photos |-> 1],
    [hostedMissing |-> FALSE, hostedPhotos |-> <<HostedFailed, HostedOk>>, photos |-> 2],
    [hostedMissing |-> FALSE, hostedPhotos |-> <<HostedOk, HostedOk>>, photos |-> 2] }

ListingId(pos) == "listing_" \o ToString(pos)

\* the arrays postAllListings is called with: listing i has its own id
ListingArrays ==
  UNION { [1..n -> ListingShapes] : n \in 0..MaxListings }

ApiReplies == {"neterr", "http500", "badjson", "success", "failure"}

\* mutant: a photo counts as hosted as soon as it has a url
PhotoUrls_IgnoreError(l) ==
  LET ok == SelectSeq(l.hostedPhotos, LAMBDA ph : ~Falsy(ph.url))
  IN [k \in 1..Len(ok) |-> ok[k].url]

\* hostedPhotos.filter(photo => photo.url && !photo.error).map(photo => photo.url)
PhotoUrls(l) ==
  LET ok == SelectSeq(l.hostedPhotos, LAMBDA ph : ~Falsy(ph.url) /\ Falsy(ph.error))
  IN [k \in 1..Len(ok) |-> ok[k].url]

\* the errors thrown before the request is made; Undefined when none is
PreflightError(l) ==
  IF l.hostedMissing \/ Len(l.hostedPhotos) = 0
  THEN IF l.photos > 0
       THEN "Photos are not hosted yet. Please try regenerating the listing or wait for photos to upload to GameSighter."
       ELSE "No photos available - listing requires photos for eBay posting"
  ELSE IF Len(PhotoUrls(l)) = 0
  THEN "No valid hosted photo URLs found - all photos failed to upload"
  ELSE Undefined

PostFulfilled(success, id, error, itemId) ==
  [state |-> "fulfilled", success |-> success, listingId |-> id, error |-> error,
   ebayListingId |-> itemId,
   message |-> IF success THEN "Listing posted successfully to eBay"
               ELSE "Failed to post listing to eBay"]
PostPending ==
  [state |-> "pending", success |-> FALSE, listingId |-> Undefined, error |-> Undefined,
   ebayListingId |-> Undefined, message |-> Undefined]

\* postSingleListing after `await fetch(...)`: every throw is caught into a result
PostAfterFetch(id, reply) ==
  CASE reply = "neterr"  -> PostFulfilled(FALSE, id, "Network request failed", Undefined)
    [] reply = "http500" -> PostFulfilled(FALSE, id, "HTTP 500: Internal Server Error", Undefined)
    [] reply = "badjson" -> PostFulfilled(FALSE, id, "JSON Parse error: Unexpected token", Undefined)
    [] reply = "failure" -> PostFulfilled(FALSE, id, "eBay rejected the listing", Undefined)
    [] reply = "success" -> PostFulfilled(TRUE, id, Undefined, "110012345678")

\* postSingleListing up to `await fetch(...)`: the settled promise, or PostPending
\* when the request was made
PostBeforeFetch(l, id) ==
  IF PreflightError(l) /= Undefined
  THEN PostFulfilled(FALSE, id, PreflightError(l), Undefined)
  ELSE PostPending

\* ------------------------------------------------------ postAllListings
\* mutant: the posts are awaited one by one and the first failure ends the loop
StartedPosts_UntilFailure(ls) ==
  {i \in 1..Len(ls) : \A j \in 1..(i - 1) : PreflightError(ls[j]) = Undefined}

\* listingsArray.map(listing => postSingleListing(listing)): the posts started
StartedPosts(ls) == 1..Len(ls)

\* mutant: the results are pushed as the posts settle
SettledResults_CompletionOrder(n, res, order) ==
  [k \in 1..n |-> res[order[k]]]

\* Promise.allSettled(postingPromises) and the forEach over it: results.results
SettledResults(n, res, order) ==
  [k \in 1..n |->
     IF res[k].state = "fulfilled" THEN res[k]
     ELSE [res[k] EXCEPT !.state = "fulfilled", !.success = FALSE,
                         !.listingId = ListingId(k),
                         !.message = "Failed to process listing"]]

NoSummary ==
  [success |-> FALSE, total |-> 0, successful |-> 0, failed |-> 0, results |-> <<>>]

\* the value postAllListings returns
BatchSummary(n, results) ==
  [success |-> TRUE, total |-> n,
   successful |-> Cardinality({k \in 1..n : results[k].success}),
   failed |-> Cardinality({k \in 1..n : ~results[k].success}),
   results |-> results]

PostInit ==
  /\ listings = <<>>
  /\ ppc = "idle"
  /\ post = [i \in Slots |-> "none"]
  /\ postRes = [i \in Slots |-> PostPending]
  /\ apiReply = [i \in Slots |-> "none"]
  /\ fetchCalls = {}
  /\ postOrder = <<>>
  /\ summary = NoSummary

\* postAllListings up to `await Promise.allSettled(...)`: every post runs up to
\* its own request
PostAllStart(ls) ==
  /\ ppc = "idle"
  /\ listings' = ls
  /\ LET started == StartedPosts(ls)
         early == {i \in started : PreflightError(ls[i]) /= Undefined}
     IN /\ post' = [i \in Slots |->
                      IF i \in early THEN "settled"
                      ELSE IF i \in started THEN "inflight" ELSE "none"]
        /\ postRes' = [i \in Slots |->
                      IF i \in started THEN PostBeforeFetch(ls[i], ListingId(i))
                      ELSE PostPending]
        /\ fetchCalls' = started \ early
        /\ postOrder' = SelectSeq([k \in 1..Len(ls) |-> k], LAMBDA k : k \in early)
  /\ ppc' = "awaitSettled"
  /\ UNCHANGED <<apiReply, summary>>
  /\ UNCHANGED <<analyzeVars, extractVars, parseVars, buildVars, listVars, uiVars, batchVars>>

\* the server answers the request of listing i and its postSingleListing settles
ApiResponds(i, reply) ==
  /\ post[i] = "inflight"
  /\ post' = [post EXCEPT ![i] = "settled"]
  /\ apiReply' = [apiReply EXCEPT ![i] = reply]
  /\ postRes' = [postRes EXCEPT ![i] = PostAfterFetch(ListingId(i), reply)]
  /\ postOrder' = Append(postOrder, i)
  /\ UNCHANGED <<listings, ppc, fetchCalls, summary>>
  /\ UNCHANGED <<analyzeVars, extractVars, parseVars, buildVars, listVars, uiVars, batchVars>>

\* Promise.allSettled resolved: the results are counted and returned
PostAllJoin ==
  /\ ppc = "awaitSettled"
  /\ \A i \in 1..Len(listings) : post[i] = "settled"
  /\ summary' = BatchSummary(Len(listings),
                             SettledResults(Len(listings), postRes, postOrder))
  /\ ppc' = "done"
  /\ UNCHANGED <<listings, post, postRes, apiReply, fetchCalls, postOrder>>
  /\ UNCHANGED <<analyzeVars, extractVars, parseVars, buildVars, listVars, uiVars, batchVars>>

PostNext ==
  \/ \E ls \in ListingArrays : PostAllStart(ls)
  \/ \E i \in Slots, reply \in ApiReplies : ApiResponds(i, reply)
  \/ PostAllJoin

\* ------------------------------------------------- claims on the posting
\* the listing has no hosted photo with a url and without an error
ZeroValidHosted(l) ==
  \/ l.hostedMissing
  \/ \A k \in 1..Len(l.hostedPhotos) :
       Falsy(l.hostedPhotos[k].url) \/ ~Falsy(l.hostedPhotos[k].error)

MissingPhotoErrors ==
  {"Photos are not hosted yet. Please try regenerating the listing or wait for photos to upload to GameSighter.",
   "No photos available - listing requires photos for eBay posting",
   "No valid hosted photo URLs found - all photos failed to upload"}

\* C7: a listing with zero valid hosted photo urls has failed with a
\* missing-photos result as soon as its post is started, and no request is
\* ever made for it.
C7_NoPhotosFailsWithoutNetwork ==
  \A i \in 1..Len(listings) :
    ZeroValidHosted(listings[i]) =>
      /\ post[i] = "settled"
      /\ postRes[i].state = "fulfilled"
      /\ ~postRes[i].success
      /\ postRes[i].error \in MissingPhotoErrors
      /\ postRes[i].listingId = ListingId(i)
      /\ i \notin fetchCalls
      /\ apiReply[i] = "none"

\* a listing whose only hosted photo has a url and an error failed while the
\* other listing's request is still in flight
C7_Witness ==
  /\ Len(listings) = 2
  /\ listings[2].hostedPhotos = <<HostedUrlAndError>>
  /\ post[2] = "settled" /\ ~postRes[2].success
  /\ post[1] = "inflight" /\ fetchCalls = {1}

\* C8: postAllListings returns total = n, successful + failed = n and n results,
\* result i being that of listing i; the k listings without valid hosted photos
\* are counted as failed.
C8_BatchTotalsAndOrder ==
  ppc = "done" =>
    LET n == Len(listings)
        k == Cardinality({i \in 1..n : ZeroValidHosted(listings[i])})
    IN /\ summary.success
       /\ summary.total = n
       /\ summary.successful + summary.failed = n
       /\ Len(summary.results) = n
       /\ \A i \in 1..n : summary.results[i].listingId = ListingId(i)
       /\ summary.failed >= k
       /\ summary.successful <= n - k

\* the second listing, without hosted photos, settled before the first, which
\* was posted
C8_Witness ==
  /\ ppc = "done" /\ Len(listings) = 2
  /\ postOrder = <<2, 1>>
  /\ listings[2].hostedPhotos = <<>>
  /\ summary.successful = 1 /\ summary.failed = 1

\* the outcome of listing i by itself
OwnOutcome(i) ==
  IF PreflightError(listings[i]) /= Undefined
  THEN PostBeforeFetch(listings[i], ListingId(i))
  ELSE PostAfterFetch(ListingId(i), apiReply[i])

\* C9: once postAllListings runs, the post of every listing has been started
\* (every listing with hosted photos has its request made, whatever the other
\* listings did), and the result recorded for a listing is its own outcome.
C9_FailuresAreIndependent ==
  /\ ppc /= "idle" =>
       \A i \in 1..Len(listings) :
         /\ post[i] /= "none"
         /\ ~ZeroValidHosted(listings[i]) => i \in fetchCalls
  /\ ppc = "done" =>
       \A i \in 1..Len(listings) :
         /\ post[i] = "settled"
         /\ summary.results[i] = OwnOutcome(i)

\* the first listing failed before its request and at the marketplace the
\* second one was posted
C9_Witness ==
  /\ ppc = "done" /\ Len(listings) = 2
  /\ ~summary.results[1].success /\ ZeroValidHosted(listings[1])
  /\ summary.results[2].success /\ apiReply[2] = "success"

\* ------------------------------------------------------ postListingsBatch
MaxBatchListings == 3
MaxBatchSize == 3

BatchSlots == 1..MaxBatchListings

\* a listing whose photos were not hosted and one with a hosted photo
BatchShapes ==
  { [hostedMissing |-> FALSE, hostedPhotos |-> <<>>, photos |-> 1],
    [hostedMissing |-> FALSE, hostedPhotos |-> <<HostedOk>>, photos |-> 1] }

BatchArrays == UNION { [1..n -> BatchShapes] : n \in 0..MaxBatchListings }
BatchSizes == 0..MaxBatchSize
BatchReplies == {"success", "http500"}

\* mutant: the batch is what is left of the array
BatchPositions_Rest(n, i, size) == {j \in 1..n : i < j}

\* listingsArray.slice(i, i + batchSize): the positions of the batch
BatchPositions(n, i, size) == {j \in 1..n : i < j /\ j <= i + size}

\* the results object of postListingsBatch
BatchResults(total, successful, failed, results) ==
  [total |-> total, successful |-> successful, failed |-> failed,
   results |-> results]

NoBatchOut == [success |-> FALSE, data |-> BatchResults(0, 0, 0, <<>>)]

\* what postAllListings(batch) returns once the posts of the batch settled
BatchResult(n, i, size, res) ==
  LET len == Cardinality(BatchPositions(n, i, size))
  IN BatchSummary(len, [k \in 1..len |-> res[i + k]])

\* "Aggregate results": the results object after the batch at i
Aggregate(acc, batchResult, n, i, size) ==
  IF batchResult.success
    THEN BatchResults(acc.total,
                      acc.successful + batchResult.successful,
                      acc.failed + batchResult.failed,
                      acc.results \o batchResult.results)
    ELSE LET len == Cardinality(BatchPositions(n, i, size))
         IN BatchResults(acc.total, acc.successful, acc.failed + len,
               acc.results \o
                 [k \in 1..len |->
                    [PostFulfilled(FALSE, ListingId(i + k), Undefined, Undefined)
                       EXCEPT !.message = "Batch processing failed"]])

BatchInit ==
  /\ bListings = <<>>
  /\ bSize = 0
  /\ bI = 0
  /\ bPc = "idle"
  /\ bPost = [j \in BatchSlots |-> "none"]
  /\ bPostRes = [j \in BatchSlots |-> PostPending]
  /\ bWaited = {}
  /\ bAcc = BatchResults(0, 0, 0, <<>>)
  /\ bOut = NoBatchOut

BatchIdle == BatchInit

\* the for statement from its test on, with i and results as given: the posts
\* of the next batch run up to their requests, or the summary is returned
LoopFrom(ls, size, i, acc) ==
  /\ bI' = i
  /\ bAcc' = acc
  /\ IF i < Len(ls)
       THEN LET batch == BatchPositions(Len(ls), i, size)
            IN /\ bPost' = [j \in BatchSlots |->
                    IF j \in batch
                      THEN IF PreflightError(ls[j]) /= Undefined
                             THEN "settled" ELSE "inflight"
                      ELSE bPost[j]]
               /\ bPostRes' = [j \in BatchSlots |->
                    IF j \in batch THEN PostBeforeFetch(ls[j], ListingId(j))
                    ELSE bPostRes[j]]
               /\ bPc' = "awaitBatch"
               /\ UNCHANGED bOut
       ELSE /\ bOut' = [success |-> TRUE, data |-> acc]
            /\ bPc' = "done"
            /\ UNCHANGED <<bPost, bPostRes>>

\* postListingsBatch(listingsArray, batchSize) up to its first await
postListingsBatch(ls, size) ==
  /\ bPc = "idle"
  /\ bListings' = ls
  /\ bSize' = size
  /\ bWaited' = {}
  /\ LoopFrom(ls, size, 0, BatchResults(Len(ls), 0, 0, <<>>))
  /\ UNCHANGED <<analyzeVars, postVars, extractVars, parseVars, buildVars,
                 listVars, uiVars>>

\* the server answers the request of listing j and its postSingleListing settles
BatchApiResponds(j, reply) ==
  /\ bPc = "awaitBatch"
  /\ bPost[j] = "inflight"
  /\ bPost' = [bPost EXCEPT ![j] = "settled"]
  /\ bPostRes' = [bPostRes EXCEPT ![j] = PostAfterFetch(ListingId(j), reply)]
  /\ UNCHANGED <<bListings, bSize, bI, bPc, bWaited, bAcc, bOut>>
  /\ UNCHANGED <<analyzeVars, postVars, extractVars, parseVars, buildVars,
                 listVars, uiVars>>

\* `await postAllListings(batch)` returned: the batch is aggregated and either
\* the 2 s timer is set or i is advanced
BatchSettles ==
  /\ bPc = "awaitBatch"
  /\ \A j \in BatchPositions(Len(bListings), bI, bSize) : bPost[j] = "settled"
  /\ LET n == Len(bListings)
         acc == Aggregate(bAcc, BatchResult(n, bI, bSize, bPostRes), n, bI, bSize)
     IN IF bI + bSize < n
          THEN /\ bAcc' = acc
               /\ bPc' = "delay"
               /\ UNCHANGED <<bI, bPost, bPostRes, bOut>>
          ELSE LoopFrom(bListings, bSize, bI + bSize, acc)
  /\ UNCHANGED <<bListings, bSize, bWaited>>
  /\ UNCHANGED <<analyzeVars, postVars, extractVars, parseVars, buildVars,
                 listVars, uiVars>>

\* the timer fired: i += batchSize and the loop goes on
DelayElapses ==
  /\ bPc = "delay"
  /\ bWaited' = bWaited \cup {bI + bSize}
  /\ LoopFrom(bListings, bSize, bI + bSize, bAcc)
  /\ UNCHANGED <<bListings, bSize>>
  /\ UNCHANGED <<analyzeVars, postVars, extractVars, parseVars, buildVars,
                 listVars, uiVars>>

BatchNext ==
  \/ \E ls \in BatchArrays, size \in BatchSizes : postListingsBatch(ls, size)
  \/ \E j \in BatchSlots, reply \in BatchReplies : BatchApiResponds(j, reply)
  \/ BatchSettles
  \/ DelayElapses

\* --------------------------------------------- claims on postListingsBatch
\* C25: the batches are consecutive runs of at most batchSize listings; while
\* a batch is posted every earlier listing has settled and no later one has
\* been started, a batch after the first starts after the delay, and the
\* summary returned has total = n, successful + failed = n and the n results
\* in input order.
C25_BatchesOneAfterAnother ==
  LET n == Len(bListings)
      started == {j \in 1..n : bPost[j] /= "none"}
  IN /\ bPc \in {"awaitBatch", "delay"} =>
          /\ started \subseteq 1..(bI + bSize)
          /\ Cardinality({j \in started : j > bI}) <= bSize
          /\ \A j \in 1..n : j <= bI => bPost[j] = "settled"
          /\ \A j \in 1..n : bPost[j] = "inflight" => bPc = "awaitBatch"
          /\ bI > 0 => bI \in bWaited
     /\ bPc = "done" =>
          /\ bOut.success
          /\ bOut.data.total = n
          /\ bOut.data.successful + bOut.data.failed = n
          /\ Len(bOut.data.results) = n
          /\ \A j \in 1..n :
               /\ bOut.data.results[j].listingId = ListingId(j)
               /\ bOut.data.results[j] = bPostRes[j]

\* three listings went out in a batch of two and, after the delay, a batch
\* of one
C25_Witness ==
  /\ bPc = "done" /\ Len(bListings) = 3 /\ bSize = 2
  /\ bWaited = {2}
  /\ bOut.data.successful = 2 /\ bOut.data.failed = 1

\* C28: every call of postListingsBatch returns, and in the summary it
\* returns each input listing appears exactly once.
C28_BatchTerminates ==
  <>(/\ bPc = "done"
     /\ \A j \in 1..Len(bListings) :
          Cardinality({k \in 1..Len(bOut.data.results) :
                         bOut.data.results[k].listingId = ListingId(j)}) = 1)

\* --------------------------------------------------- response extraction
\* A response is a sequence of tokens: the braces and brackets of JSON, "m" for
\* the member "a":1, "x" for a character of prose, " " for white space.
Tokens == {"{", "}", "[", "]", "m", "x", " "}

Responses == UNION { [1..n -> Tokens] : n \in 0..MaxResponseLen }

\* String.prototype.trim
RECURSIVE Trim(_)
Trim(s) ==
  IF s = <<>> THEN s
  ELSE IF Head(s) = " " THEN Trim(Tail(s))
  ELSE IF s[Len(s)] = " " THEN Trim(SubSeq(s, 1, Len(s) - 1))
  ELSE s

\* the position of the first token at or after i that is not white space
RECURSIVE SkipWs(_, _)
SkipWs(s, i) ==
  IF i <= Len(s) /\ s[i] = " " THEN SkipWs(s, i + 1) ELSE i

At(s, i) == IF i >= 1 /\ i <= Len(s) THEN s[i] ELSE "eof"

\* JSON value at position i: the position after it, or 0 when there is none
RECURSIVE ParseValue(_, _)
ParseValue(s, i) ==
  IF At(s, i) = "{"
  THEN LET j == SkipWs(s, i + 1) IN
       IF At(s, j) = "}" THEN j + 1
       ELSE IF At(s, j) = "m"
       THEN LET k == SkipWs(s, j + 1) IN IF At(s, k) = "}" THEN k + 1 ELSE 0
       ELSE 0
  ELSE IF At(s, i) = "["
  THEN LET j == SkipWs(s, i + 1) IN
       IF At(s, j) = "]" THEN j + 1
       ELSE LET e == ParseValue(s, j) IN
            IF e = 0 THEN 0
            ELSE LET k == SkipWs(s, e) IN IF At(s, k) = "]" THEN k + 1 ELSE 0
  ELSE 0

\* the parsed value, written as its tokens without white space
Canon(s) == SelectSeq(s, LAMBDA c : c /= " ")

\* JSON.parse
JSONParse(s) ==
  LET e == ParseValue(s, SkipWs(s, 1)) IN
  IF e /= 0 /\ SkipWs(s, e) = Len(s) + 1
  THEN [ok |-> TRUE, value |-> Canon(s)]
  ELSE [ok |-> FALSE, value |-> <<>>]

Positions(s, c) == {i \in 1..Len(s) : s[i] = c}
Min(S) == CHOOSE a \in S : \A b \in S : a <= b
Max(S) == CHOOSE a \in S : \A b \in S : a >= b

\* rawResponse.match(/\{[\s\S]*\}/): from the first "{" to the last "}" after it
JsonMatch(s) ==
  LET opens == Positions(s, "{")
      closes == Positions(s, "}")
  IN IF opens /= {} /\ closes /= {} /\ Max(closes) > Min(opens)
     THEN [found |-> TRUE, text |-> SubSeq(s, Min(opens), Max(closes))]
     ELSE [found |-> FALSE, text |-> <<>>]

Returned(v) == [threw |-> FALSE, value |-> v, message |-> Undefined]
Thrown(m) == [threw |-> TRUE, value |-> <<>>, message |-> m]
NotExtracted == [threw |-> FALSE, value |-> <<>>, message |-> "not run"]

\* mutant: an unparsable response yields an empty listing
parseGeneralResponse_Default(raw) ==
  LET m == JsonMatch(raw)
      r == IF m.found THEN JSONParse(m.text) ELSE JSONParse(Trim(raw))
  IN IF r.ok THEN Returned(r.value) ELSE Returned(<<"{", "}">>)

\* parseGeneralResponse (utils/responseParser.js)
parseGeneralResponse(raw) ==
  LET m == JsonMatch(raw)
      r == IF m.found THEN JSONParse(m.text) ELSE JSONParse(Trim(raw))
  IN IF r.ok THEN Returned(r.value)
     ELSE Thrown("Failed to parse general listing")

\* parseListingResponse for GENERAL_LISTING and unknown types
parseListingResponse(raw) ==
  IF raw = <<>> THEN Thrown("No response provided")
  ELSE parseGeneralResponse(raw)

\* parseAndCleanResponse (server.js, new-server.js)
parseAndCleanResponse(raw) ==
  IF raw = <<>> THEN Thrown("Failed to parse OpenAI response: Invalid response from OpenAI - not a string")
  ELSE LET m == JsonMatch(raw) IN
       IF ~m.found
       THEN IF JSONParse(Trim(raw)).ok THEN Returned(JSONParse(Trim(raw)).value)
            ELSE Thrown("Failed to parse OpenAI response: No JSON found in response")
       ELSE IF JSONParse(m.text).ok THEN Returned(JSONParse(m.text).value)
            ELSE Thrown("Failed to parse OpenAI response: Unexpected token")

ExtractInit ==
  /\ rawResponse \in Responses
  /\ extractPc = "ready"
  /\ extractor = "none"
  /\ extracted = NotExtracted

ExtractIdle ==
  /\ rawResponse = <<>>
  /\ extractPc = "ready"
  /\ extractor = "none"
  /\ extracted = NotExtracted

\* the client parses result.rawResponse
ClientParses ==
  /\ extractPc = "ready"
  /\ extracted' = parseListingResponse(rawResponse)
  /\ extractor' = "parseListingResponse"
  /\ extractPc' = "done"
  /\ UNCHANGED rawResponse
  /\ UNCHANGED <<analyzeVars, postVars, parseVars, buildVars, listVars, uiVars, batchVars>>

\* the server parses the model's response
ServerParses ==
  /\ extractPc = "ready"
  /\ extracted' = parseAndCleanResponse(rawResponse)
  /\ extractor' = "parseAndCleanResponse"
  /\ extractPc' = "done"
  /\ UNCHANGED rawResponse
  /\ UNCHANGED <<analyzeVars, postVars, parseVars, buildVars, listVars, uiVars, batchVars>>

\* ----------------------------------------------- claims on the extraction
ObjectA1 == <<"{", "m", "}">>

\* s is the object {a:1} with prose (letters and white space) around it
ObjectInProse(s) ==
  \E a \in 1..(Len(s) - 2) :
    /\ SubSeq(s, a, a + 2) = ObjectA1
    /\ \A i \in 1..Len(s) : (i < a \/ i > a + 2) => s[i] \in {"x", " "}

C23_WholeTextParsedFirst ==
  (extractPc = "done" /\ rawResponse /= <<>>) =>
    LET whole == JSONParse(Trim(rawResponse))
        span == JsonMatch(rawResponse)
    IN /\ whole.ok => extracted = Returned(whole.value)
       /\ extracted.threw =>
            /\ ~whole.ok
            /\ ~(span.found /\ JSONParse(span.text).ok)

\* =================================================== parseEbayResponse
\* ------------------------------------------------------------------ bounds
MaxErrors == 2
MaxMessages == 2

\* a response body is a string, kept as its tags and texts in order, or,
\* when axios decoded something else, a value that is not a string
XmlString(toks) == [type |-> "string", text |-> toks]
NonStrings ==
  {[type |-> t, text |-> <<>>] : t \in {"undefined", "null", "object", "number"}}

AckValues == {"Success", "Warning", "Failure", "PartialFailure"}
ItemIds == {"123"}
LongMessages == {"Bad category", "Invalid price"}
Separators == {<<>>, <<"\n">>}

RECURSIVE Flatten(_)
Flatten(ss) == IF ss = <<>> THEN <<>> ELSE Head(ss) \o Flatten(Tail(ss))

RECURSIVE Join(_)
Join(toks) == IF toks = <<>> THEN "" ELSE Head(toks) \o Join(Tail(toks))

ErrorBlocks ==
  UNION { [1..n -> LongMessages] : n \in 0..MaxMessages }

XmlParts ==
  [kind : {"xml"},
   ack : AckValues \cup {Undefined},
   itemId : ItemIds \cup {Undefined},
   errors : UNION { [1..n -> ErrorBlocks] : n \in 0..MaxErrors },
   sep : Separators]

NoParts ==
  [kind |-> "other", ack |-> Undefined, itemId |-> Undefined,
   errors |-> <<>>, sep |-> <<>>]

ErrorsXml(msgs, sep) ==
  <<"<Errors>">> \o sep
    \o Flatten([k \in 1..Len(msgs) |->
                  <<"<LongMessage>", msgs[k], "</LongMessage>">> \o sep])
    \o <<"</Errors>">>

\* the AddItemResponse eBay sends for these elements
XmlOf(p) ==
  <<"<AddItemResponse>">> \o p.sep
    \o (IF p.ack = Undefined THEN <<>>
        ELSE <<"<Ack>", p.ack, "</Ack>">> \o p.sep)
    \o Flatten([k \in 1..Len(p.errors) |-> ErrorsXml(p.errors[k], p.sep) \o p.sep])
    \o (IF p.itemId = Undefined THEN <<>>
        ELSE <<"<ItemID>", p.itemId, "</ItemID>">> \o p.sep)
    \o <<"</AddItemResponse>">>

GarbageTexts ==
  {<<>>, <<"Bad Gateway">>, <<"<Ack>", "Success">>, <<"</Ack>", "Success", "<Ack>">>}

\* String.prototype.match with /open(.*?)close/ and, with dotAll, the s
\* flag: leftmost start, shortest group; without s the group has no newline
RegexMatch_Greedy(s, open, close, dotAll) ==
  LET ends(i) == {j \in (i + 1)..Len(s) :
                    /\ s[j] = close
                    /\ dotAll \/ \A k \in (i + 1)..(j - 1) : s[k] # "\n"}
      starts == {i \in 1..Len(s) : s[i] = open /\ ends(i) # {}}
  IN IF starts = {} THEN [found |-> FALSE, group |-> <<>>]
     ELSE LET i == Min(starts)
          IN [found |-> TRUE, group |-> SubSeq(s, i + 1, Max(ends(i)) - 1)]

RegexMatch(s, open, close, dotAll) ==
  LET ends(i) == {j \in (i + 1)..Len(s) :
                    /\ s[j] = close
                    /\ dotAll \/ \A k \in (i + 1)..(j - 1) : s[k] # "\n"}
      starts == {i \in 1..Len(s) : s[i] = open /\ ends(i) # {}}
  IN IF starts = {} THEN [found |-> FALSE, group |-> <<>>]
     ELSE LET i == Min(starts)
          IN [found |-> TRUE, group |-> SubSeq(s, i + 1, Min(ends(i)) - 1)]

ParseResult(success, ack, itemId, error, raw) ==
  [threw |-> FALSE, success |-> success, ack |-> ack, itemId |-> itemId,
   error |-> error, rawResponse |-> raw]

NotParsed ==
  [threw |-> FALSE, success |-> FALSE, ack |-> Undefined, itemId |-> Undefined,
   error |-> Undefined, rawResponse |-> XmlString(<<>>)]

\* the body of the try block: .match of a value that is not a string raises
ParseTry(x) ==
  IF x.type # "string"
    THEN [threw |-> TRUE, success |-> FALSE, ack |-> Undefined,
          itemId |-> Undefined, error |-> "TypeError", rawResponse |-> x]
    ELSE
      LET ackMatch == RegexMatch(x.text, "<Ack>", "</Ack>", FALSE)
          itemIdMatch == RegexMatch(x.text, "<ItemID>", "</ItemID>", FALSE)
          errorsMatch == RegexMatch(x.text, "<Errors>", "</Errors>", TRUE)
          ack == IF ackMatch.found THEN Join(ackMatch.group) ELSE "Unknown"
          longMatch == RegexMatch(errorsMatch.group,
                                  "<LongMessage>", "</LongMessage>", FALSE)
      IN IF ack \in {"Success", "Warning"}
           THEN ParseResult(TRUE, ack,
                            IF itemIdMatch.found THEN Join(itemIdMatch.group)
                            ELSE Null,
                            Undefined, x)
           ELSE ParseResult(FALSE, ack, Undefined,
                            IF errorsMatch.found /\ longMatch.found
                              THEN Join(longMatch.group)
                              ELSE "Unknown eBay error",
                            x)

parseEbayResponse_Uncaught(x) == ParseTry(x)

parseEbayResponse(x) ==
  LET r == ParseTry(x)
  IN IF r.threw
       THEN ParseResult(FALSE, Undefined, Undefined,
                        "Failed to parse eBay response: " \o r.error, x)
       ELSE r

ParseInit ==
  /\ parsePc = "ready"
  /\ parsed = NotParsed
  /\ \/ /\ xmlParts \in XmlParts
        /\ xmlResponse = XmlString(XmlOf(xmlParts))
     \/ /\ xmlParts = NoParts
        /\ xmlResponse \in {XmlString(t) : t \in GarbageTexts} \cup NonStrings

ParseIdle ==
  /\ parsePc = "idle"
  /\ parsed = NotParsed
  /\ xmlParts = NoParts
  /\ xmlResponse = XmlString(<<>>)

\* parseEbayResponse(xmlResponse)
ParseEbay ==
  /\ parsePc = "ready"
  /\ parsed' = parseEbayResponse(xmlResponse)
  /\ parsePc' = "done"
  /\ UNCHANGED <<xmlParts, xmlResponse>>
  /\ UNCHANGED <<analyzeVars, postVars, extractVars, buildVars, listVars, uiVars, batchVars>>

\* --------------------------------------------- claims on parseEbayResponse
\* C11: Ack Success or Warning gives success = true with itemId the text of
\* the ItemID element; any other or missing Ack gives success = false, with
\* error the first LongMessage of the Errors element when it has one
C11_AckMapsToResult ==
  (parsePc = "done" /\ xmlParts.kind = "xml") =>
    /\ parsed.success = (xmlParts.ack \in {"Success", "Warning"})
    /\ (parsed.success /\ xmlParts.itemId # Undefined) =>
         parsed.itemId = xmlParts.itemId
    /\ (~parsed.success /\ xmlParts.errors # <<>> /\ xmlParts.errors[1] # <<>>) =>
         parsed.error = xmlParts.errors[1][1]

\* Ack Failure with two messages in the first of two Errors elements, one
\* element per line: the first message is reported
C11_Witness ==
  /\ parsePc = "done"
  /\ xmlParts.kind = "xml"
  /\ xmlParts.ack = "Failure"
  /\ xmlParts.sep = <<"\n">>
  /\ Len(xmlParts.errors) = 2
  /\ xmlParts.errors[1] = <<"Bad category", "Invalid price">>
  /\ parsed.error = "Bad category"
  /\ ~parsed.success

\* C12: parseEbayResponse returns a result for every input, text or not; a
\* parse failure is success = false; rawResponse is always the input
C12_ParseNeverThrows ==
  parsePc = "done" =>
    /\ ~parsed.threw
    /\ parsed.rawResponse = xmlResponse
    /\ xmlResponse.type # "string" => ~parsed.success
    /\ xmlParts.kind = "other" => ~parsed.success

\* a value that is not a string was parsed: failure, input kept
C12_Witness ==
  /\ parsePc = "done"
  /\ xmlResponse.type = "object"
  /\ ~parsed.success
  /\ ~parsed.threw
  /\ parsed.rawResponse = xmlResponse

\* ===================================================== request builders
\* ------------------------------------------------------------------ bounds
MaxTextLen == 2
MaxKeywords == 2
MaxSpecifics == 2

\* A free text is a sequence of characters; a run of ordinary characters
\* ("Dune", " by ") is kept as one element.
TextTokens == {"Dune", "&", "<", ">", " by "}
Texts == UNION { [1..n -> TextTokens] : n \in 0..MaxTextLen }

Amp == <<"&", "a", "m", "p", ";">>
Lt == <<"&", "l", "t", ";">>
Gt == <<"&", "g", "t", ";">>
Quot == <<"&", "q", "u", "o", "t", ";">>
Apos == <<"&", "#", "3", "9", ";">>

\* String.prototype.replace(/c/g, rep)
RECURSIVE ReplaceAll(_, _, _)
ReplaceAll(s, c, rep) ==
  IF s = <<>> THEN <<>>
  ELSE (IF Head(s) = c THEN rep ELSE <<Head(s)>>) \o ReplaceAll(Tail(s), c, rep)

escapeXml(unsafe) ==
  IF unsafe = <<>> THEN <<>>
  ELSE ReplaceAll(ReplaceAll(ReplaceAll(ReplaceAll(ReplaceAll(
         unsafe, "&", Amp), "<", Lt), ">", Gt), "\"", Quot), "'", Apos)

\* conditionIdMap and what a property read finds on its prototype chain
ConditionIdMap == [c \in {"Very Good", "Good", "Acceptable"} |->
                     CASE c = "Very Good" -> "4000"
                       [] c = "Good" -> "5000"
                       [] c = "Acceptable" -> "6000"]
ObjectPrototypeKeys == {"constructor", "toString"}
NativeFunction == "function () { [native code] }"

ObjectGet(map, key) ==
  IF key \in DOMAIN map THEN map[key]
  ELSE IF key \in ObjectPrototypeKeys THEN NativeFunction
  ELSE Undefined

Conditions ==
  {"Very Good", "Good", "Acceptable", "Like New", "New", "Used", "",
   Undefined, "constructor"}

getEbayConditionID(condition) ==
  LET c == IF condition = "Like New" THEN "Very Good" ELSE condition
      id == ObjectGet(ConditionIdMap, c)
  IN IF Falsy(id) THEN "5000" ELSE id

\* getEbayCategoryID reads a category text only through includes(keyword):
\* a category is kept as the set of these keywords its lower-cased text
\* contains (none for a missing or empty category)
Keywords ==
  {"book", "fiction", "literature", "novel", "non-fiction", "biography",
   "history", "textbook", "education", "children", "kids", "music", "cd",
   "dvd", "movie", "vhs", "electronic", "computer", "phone", "collectible",
   "vintage"}

\* a text that contains non-fiction contains fiction, and so on
SubstringClosed(k) ==
  /\ "non-fiction" \in k => "fiction" \in k
  /\ "textbook" \in k => "book" \in k

Categories ==
  {k \in SUBSET Keywords : Cardinality(k) <= MaxKeywords /\ SubstringClosed(k)}

ListingTypes ==
  {"GENERAL_LISTING", "BOOK_ITEM", "BOOK_LOTS", "CD_MUSIC", "DVD_MOVIE",
   "VHS_LISTING", Undefined}

Includes(category, ks) == category \cap ks # {}

getEbayCategoryID(category, listingType) ==
  IF listingType \in {"BOOK_ITEM", "BOOK_LOTS"} \/ Includes(category, {"book"})
    THEN IF Includes(category, {"fiction", "literature", "novel"}) THEN "377"
         ELSE IF Includes(category, {"non-fiction", "biography", "history"})
           THEN "29792"
         ELSE IF Includes(category, {"textbook", "education"}) THEN "172562"
         ELSE IF Includes(category, {"children", "kids"}) THEN "11450"
         ELSE "377"
  ELSE IF listingType = "CD_MUSIC" \/ Includes(category, {"music", "cd"})
    THEN "176985"
  ELSE IF listingType = "DVD_MOVIE" \/ Includes(category, {"dvd", "movie"})
    THEN "617"
  ELSE IF listingType = "VHS_LISTING" \/ Includes(category, {"vhs"})
    THEN "309"
  ELSE IF Includes(category, {"electronic", "computer", "phone"}) THEN "58058"
  ELSE IF Includes(category, {"collectible", "vintage"}) THEN "1"
  ELSE "377"

\* an object of item specifics: its entries in insertion order
SpecificNames == {"Brand", "Author"}
SpecificValues == {<<>>, <<" ">>, <<"Sony">>}
Entry(name, value) == [name |-> name, value |-> value]

ItemSpecifics ==
  {m \in UNION { [1..n -> [name : SpecificNames, value : SpecificValues]] :
                 n \in 0..MaxSpecifics } :
     \A i, j \in 1..Len(m) : m[i].name = m[j].name => i = j}

Names(m) == {m[i].name : i \in 1..Len(m)}

\* m[name]; '' stands for a missing property too (both are falsy)
Get(m, name) ==
  IF name \in Names(m)
    THEN (CHOOSE e \in {m[i] : i \in 1..Len(m)} : e.name = name).value
    ELSE <<>>

\* m[name] = value: an existing key keeps its place
Set(m, name, value) ==
  IF name \in Names(m)
    THEN [i \in 1..Len(m) |->
            IF m[i].name = name THEN Entry(name, value) ELSE m[i]]
    ELSE Append(m, Entry(name, value))

SetIfFalsy(m, name, value) ==
  IF Get(m, name) = <<>> THEN Set(m, name, value) ELSE m

\* the position of the first " by " of a title, 0 without one
ByPosition(title) ==
  LET at == {i \in 1..Len(title) : title[i] = " by "}
  IN IF at = {} THEN 0 ELSE Min(at)

\* title.replace(/:\s*.*$/i, '').trim().replace(/\s*by\s+.*$/i, '').trim():
\* the first trim takes the blank after a closing "by", which then does not
\* match
BookTitleFrom(title) ==
  IF ByPosition(title) = 0 \/ ByPosition(title) = Len(title) THEN Trim(title)
  ELSE Trim(SubSeq(title, 1, ByPosition(title) - 1))

\* title.match(/by\s+([^-]+)/i), 'Unknown' without a match
AuthorFrom(title) ==
  IF ByPosition(title) = 0 \/ ByPosition(title) = Len(title)
    THEN <<"Unknown">>
    ELSE Trim(SubSeq(title, ByPosition(title) + 1, Len(title)))

BookCategoryIDs == {"377", "29792", "11450", "172562"}

\* value && value.toString().trim()
NonBlank(value) == value # <<>> /\ Trim(value) # <<>>

NameValueList(m) ==
  LET kept == SelectSeq(m, LAMBDA e : NonBlank(e.value))
  IN [i \in 1..Len(kept) |->
        [Name |-> escapeXml(<<kept[i].name>>), Value |-> escapeXml(kept[i].value)]]

PictureURLs(photoUrls) ==
  [i \in 1..Len(photoUrls) |-> escapeXml(photoUrls[i])]

\* the request text: the template is fixed, the record holds what is
\* interpolated into it
Request(title, description, condition, category, pictures, specifics) ==
  [threw |-> FALSE, error |-> Undefined,
   Title |-> title, Description |-> description,
   ConditionID |-> condition, CategoryID |-> category,
   PictureURLs |-> pictures,
   hasItemSpecifics |-> specifics # <<>>, ItemSpecifics |-> specifics]

BuildThrew(message) ==
  [threw |-> TRUE, error |-> message,
   Title |-> <<>>, Description |-> <<>>,
   ConditionID |-> Undefined, CategoryID |-> Undefined,
   PictureURLs |-> <<>>,
   hasItemSpecifics |-> FALSE, ItemSpecifics |-> <<>>]

NotBuilt ==
  [threw |-> FALSE, error |-> Undefined,
   Title |-> <<>>, Description |-> <<>>,
   ConditionID |-> Undefined, CategoryID |-> Undefined,
   PictureURLs |-> <<>>,
   hasItemSpecifics |-> FALSE, ItemSpecifics |-> <<>>]

\* listing.description || 'No description provided', inside CDATA as it is
DescriptionOf(l) ==
  IF l.description = <<>> THEN <<"No description provided">> ELSE l.description

\* allSpecifics of buildEbayXMLRequest
AllSpecifics(l) ==
  IF getEbayCategoryID(l.category, l.listingType) \in BookCategoryIDs
    THEN LET a == SetIfFalsy(l.itemSpecifics, "Book Title", BookTitleFrom(l.title))
             b == SetIfFalsy(a, "Author", AuthorFrom(l.title))
             c == IF Get(b, "Format") = <<>> /\ Get(b, "format") = <<>>
                    THEN Set(b, "Format", <<"Paperback">>) ELSE b
             d == IF Get(c, "Language") = <<>> /\ Get(c, "language") = <<>>
                    THEN Set(c, "Language", <<"English">>) ELSE c
         IN SetIfFalsy(d, "Book Series", <<"N/A">>)
    ELSE l.itemSpecifics

buildEbayXMLRequest(l, photoUrls) ==
  Request(escapeXml(l.title), DescriptionOf(l),
          getEbayConditionID(l.condition),
          getEbayCategoryID(l.category, l.listingType),
          PictureURLs(photoUrls), NameValueList(AllSpecifics(l)))

\* allSpecifics of buildEbayBookXMLRequest
Or(value, default) == IF value = <<>> THEN default ELSE value

BookSpecifics(l) ==
  LET s == l.itemSpecifics
  IN << Entry("Book Title", Or(Get(s, "Book Title"), l.title)),
        Entry("Author", Or(Get(s, "Author"), <<"Unknown">>)),
        Entry("Format", Or(Get(s, "Format"), <<"Hardcover">>)),
        Entry("Language", Or(Get(s, "Language"), <<"English">>)),
        Entry("Topic", Or(Get(s, "Topic"), <<"General">>)),
        Entry("Publisher", Get(s, "Publisher")),
        Entry("Publication Year", Get(s, "Publication Year")),
        Entry("ISBN", Get(s, "ISBN")),
        Entry("Edition", Get(s, "Edition")),
        Entry("Series", Get(s, "Series")),
        Entry("Reading Level", Or(Get(s, "Reading Level"), <<"Adult">>)),
        Entry("Number of Pages", Get(s, "Number of Pages")),
        Entry("Special Features", Get(s, "Special Features")) >>

\* the xmlRequest constant of buildEbayBookXMLRequest
BookRequest(l, photoUrls) ==
  Request(escapeXml(l.title), l.description,
          getEbayConditionID(l.condition),
          getEbayCategoryID(l.category, "BOOK_ITEM"),
          PictureURLs(photoUrls), NameValueList(BookSpecifics(l)))

\* after xmlRequest is built, the log statement reads itemSpecifics, a name
\* that is declared nowhere: a ReferenceError, on every call
buildEbayBookXMLRequest(l, photoUrls) ==
  IF BookRequest(l, photoUrls).threw THEN BookRequest(l, photoUrls)
  ELSE BuildThrew("itemSpecifics is not defined")

DefaultListing ==
  [title |-> <<"Dune">>, description |-> <<"Dune">>, condition |-> "Good",
   category |-> {}, listingType |-> "GENERAL_LISTING", itemSpecifics |-> <<>>]

PhotoUrlLists ==
  { <<>>,
    << <<"https://img/1.jpg">> >>,
    << <<"https://img/1.jpg">>, <<"https://img/2.jpg?a=1", "&", "b=2">> >> }

\* listings that differ in their texts, in their codes, in their specifics
TextListings ==
  {[DefaultListing EXCEPT !.title = t, !.description = d] :
     t \in Texts, d \in Texts}
ConditionListings ==
  {[DefaultListing EXCEPT !.condition = c] : c \in Conditions}
CategoryListings ==
  {[DefaultListing EXCEPT !.category = k, !.listingType = t] :
     k \in Categories, t \in ListingTypes}
SpecificsListings ==
  {[DefaultListing EXCEPT !.itemSpecifics = m, !.category = k, !.title = t] :
     m \in ItemSpecifics, k \in {{}, {"electronic"}},
     t \in {<<"Dune">>, <<"Dune", " by ", "Herbert">>}}

BuildListings ==
  TextListings \cup ConditionListings \cup CategoryListings
    \cup SpecificsListings

BuildInit ==
  /\ buildPc = "ready"
  /\ built = NotBuilt
  /\ buildVariant \in {"general", "book"}
  /\ \/ buildListing \in BuildListings /\ buildPhotoUrls = <<>>
     \/ buildListing = DefaultListing /\ buildPhotoUrls \in PhotoUrlLists

BuildIdle ==
  /\ buildPc = "idle"
  /\ built = NotBuilt
  /\ buildVariant = "general"
  /\ buildListing = DefaultListing
  /\ buildPhotoUrls = <<>>

\* buildEbayXMLRequest(listing, photoUrls)
BuildGeneral ==
  /\ buildPc = "ready"
  /\ buildVariant = "general"
  /\ built' = buildEbayXMLRequest(buildListing, buildPhotoUrls)
  /\ buildPc' = "done"
  /\ UNCHANGED <<buildListing, buildPhotoUrls, buildVariant>>
  /\ UNCHANGED <<analyzeVars, postVars, extractVars, parseVars, listVars, uiVars, batchVars>>

\* buildEbayBookXMLRequest(bookListing, photoUrls)
BuildBook ==
  /\ buildPc = "ready"
  /\ buildVariant = "book"
  /\ built' = buildEbayBookXMLRequest(buildListing, buildPhotoUrls)
  /\ buildPc' = "done"
  /\ UNCHANGED <<buildListing, buildPhotoUrls, buildVariant>>
  /\ UNCHANGED <<analyzeVars, postVars, extractVars, parseVars, listVars, uiVars, batchVars>>

BuildNext ==
  \/ BuildGeneral
  \/ BuildBook

\* ------------------------------------------- claims on the request builders
Built == buildPc = "done"

Entities == {Amp, Lt, Gt, Quot, Apos}

EntityAt(s, i) ==
  \E e \in Entities :
    i + Len(e) - 1 <= Len(s) /\ SubSeq(s, i, i + Len(e) - 1) = e

\* a '<', a '>' or an '&' that does not start an entity
RawSpecial(s) ==
  \E i \in 1..Len(s) :
    \/ s[i] \in {"<", ">"}
    \/ s[i] = "&" /\ ~EntityAt(s, i)

\* C13: in a built request, what stands for the title and what stands for
\* the description holds no raw '&', '<' or '>'
C13_TextsAreEscaped ==
  (Built /\ ~built.threw) =>
    /\ ~RawSpecial(built.Title)
    /\ ~RawSpecial(built.Description)

ConditionCodes == {"4000", "5000", "6000"}
CategoryCodes ==
  {"377", "29792", "172562", "11450", "176985", "617", "309", "58058", "1"}
MappedConditions == {"Very Good", "Good", "Acceptable", "Like New"}

\* C15: the general request's ConditionID and CategoryID are codes of the
\* two tables, and a condition outside the table gives 5000
C15_CodesComeFromTables ==
  (Built /\ buildVariant = "general") =>
    /\ built.ConditionID \in ConditionCodes
    /\ built.CategoryID \in CategoryCodes
    /\ buildListing.condition \notin MappedConditions =>
         built.ConditionID = "5000"

\* the item specifics a builder works from, defaults included
SpecificsOf(variant, l) ==
  IF variant = "general" THEN AllSpecifics(l) ELSE BookSpecifics(l)

PairsNamed(name) ==
  {i \in 1..Len(built.ItemSpecifics) :
     built.ItemSpecifics[i].Name = escapeXml(<<name>>)}

\* C17: the request has one pair for each entry with a non-blank value, no
\* pair for a blank one, and no ItemSpecifics block when every entry is blank
C17_OnePairPerNonBlankEntry ==
  Built =>
    LET all == SpecificsOf(buildVariant, buildListing)
    IN /\ \A i \in 1..Len(all) :
            Cardinality(PairsNamed(all[i].name)) =
              IF NonBlank(all[i].value) THEN 1 ELSE 0
       /\ built.hasItemSpecifics = (\E i \in 1..Len(all) : NonBlank(all[i].value))

MediaCategory(listingType) ==
  CASE listingType = "CD_MUSIC" -> "176985"
    [] listingType = "DVD_MOVIE" -> "617"
    [] listingType = "VHS_LISTING" -> "309"

\* C18: a CD_MUSIC, DVD_MOVIE or VHS_LISTING listing gets its type's
\* category, whatever keywords its category text holds
C18_MediaTypeFixesCategory ==
  (Built /\ buildVariant = "general"
     /\ buildListing.listingType \in {"CD_MUSIC", "DVD_MOVIE", "VHS_LISTING"}) =>
    built.CategoryID = MediaCategory(buildListing.listingType)

RequiredBookSpecifics == {"Book Title", "Author", "Format", "Language"}

\* the request has a pair of that name with a value that is not blank
HasValue(name) ==
  \E i \in PairsNamed(name) : NonBlank(built.ItemSpecifics[i].Value)

\* C24: the general request of a listing that resolves to a book category and
\* has a non-empty title holds a non-empty value for Book Title, Author,
\* Format and Language.
C24_BookRequestHasRequiredSpecifics ==
  (Built /\ buildVariant = "general" /\ ~built.threw
     /\ built.CategoryID \in BookCategoryIDs
     /\ buildListing.title /= <<>>) =>
    \A name \in RequiredBookSpecifics : HasValue(name)

\* the keywords getEbayCategoryID looks for in its book branch
BookKeywords ==
  {"book", "fiction", "literature", "novel", "non-fiction", "biography",
   "history", "textbook", "education", "children", "kids"}

AddedBookSpecifics == RequiredBookSpecifics \cup {"Book Series"}

\* C29: the request of a GENERAL_LISTING whose category holds no book keyword
\* has none of the book specifics (Book Title, Author, Format, Language, Book
\* Series) but those the listing supplied itself.
C29_BookSpecificsOnlyForBooks ==
  (Built /\ buildVariant = "general" /\ ~built.threw
     /\ buildListing.listingType = "GENERAL_LISTING"
     /\ ~Includes(buildListing.category, BookKeywords)) =>
    \A name \in AddedBookSpecifics :
      PairsNamed(name) /= {} => name \in Names(buildListing.itemSpecifics)

\* the keywords of each book category; the "fiction" inside "non-fiction" is
\* not a keyword of Fiction & Literature
OwnKeywords(category, code) ==
  CASE code = "377" ->
         (category \cap {"literature", "novel"}) \cup
           (IF "non-fiction" \in category THEN {} ELSE category \cap {"fiction"})
    [] code = "29792" -> category \cap {"non-fiction", "biography", "history"}
    [] code = "172562" -> category \cap {"textbook", "education"}
    [] code = "11450" -> category \cap {"children", "kids"}

\* C30: a book-type listing whose category holds keywords of one book
\* category only gets that category's code; with non-fiction it gets 29792.
C30_BookCategoryByOwnKeywords ==
  (Built /\ buildVariant = "general" /\ ~built.threw
     /\ buildListing.listingType \in {"BOOK_ITEM", "BOOK_LOTS"}) =>
    /\ \A code \in BookCategoryIDs :
         (/\ OwnKeywords(buildListing.category, code) /= {}
          /\ \A other \in BookCategoryIDs \ {code} :
               OwnKeywords(buildListing.category, other) = {})
           => built.CategoryID = code
    /\ "non-fiction" \in buildListing.category => built.CategoryID = "29792"

\* ============================================ posting one listing to eBay
\* the client function, its endpoint of server.js, the builder, the
\* Trading API call and the parser, for a general and for a book listing
PostedListings ==
  [title : {"", "Dune"},
   author : {"", "Frank Herbert"},
   condition : {"Very Good", "Good", "Acceptable", "Like New", "New", Undefined},
   failed : 0..1,
   hosted : 0..1]

\* a url that is null; escapeXml answers '' for it as for ''
NullUrl == <<>>

\* listingData.hostedPhotos: the entries of the uploads that failed, then
\* those of the uploads that succeeded
HostedPhotos(l) ==
  [k \in 1..(l.failed + l.hosted) |->
     IF k <= l.failed
       THEN [url |-> NullUrl, error |-> "Network Error"]
       ELSE [url |-> <<"https://img/" \o ToString(k) \o ".jpg">>,
             error |-> Undefined]]

\* hostedPhotos.filter(photo => photo.url && !photo.error).map(photo => photo.url)
HostedUrls(l) ==
  LET ok == SelectSeq(HostedPhotos(l),
                      LAMBDA ph : ph.url /= NullUrl /\ ph.error = Undefined)
  IN [k \in 1..Len(ok) |-> ok[k].url]

\* bookData.hostedPhotos.map(photo => photo.url)
BookPhotos(l) == [k \in 1..Len(HostedPhotos(l)) |-> HostedPhotos(l)[k].url]

TextOf(str) == IF str = "" THEN <<>> ELSE <<str>>

\* Trading API outcomes: axios rejects, or resolves with response.data
NetworkFailures == {"neterr", "timeout"}
TradingBodies ==
  { XmlString(XmlOf([NoParts EXCEPT !.kind = "xml", !.ack = "Success",
                                    !.itemId = "123"])),
    XmlString(XmlOf([NoParts EXCEPT !.kind = "xml", !.ack = "Failure",
                                    !.errors = << <<"Bad category">> >>])),
    XmlString(XmlOf([NoParts EXCEPT !.kind = "xml", !.ack = "Failure"])),
    XmlString(<<"Bad Gateway">>),
    [type |-> "object", text |-> <<>>] }
NoBody == XmlString(<<>>)
TradingReplies ==
  {[kind |-> k, body |-> NoBody] : k \in NetworkFailures \cup {"http500"}}
    \cup {[kind |-> "body", body |-> b] : b \in TradingBodies}
NoReply == [kind |-> "none", body |-> NoBody]

\* callEbayTradingAPI: the catch logs and throws the error again
callEbayTradingAPI(reply) ==
  CASE reply.kind = "neterr" ->
         [threw |-> TRUE, error |-> "Network Error", data |-> NoBody]
    [] reply.kind = "timeout" ->
         [threw |-> TRUE, error |-> "timeout of 30000ms exceeded", data |-> NoBody]
    [] reply.kind = "http500" ->
         [threw |-> TRUE, error |-> "Request failed with status code 500",
          data |-> NoBody]
    [] OTHER -> [threw |-> FALSE, error |-> Undefined, data |-> reply.body]

ServerResult(threw, success, error, itemId) ==
  [threw |-> threw, success |-> success, error |-> error, itemId |-> itemId]
NoServerResult == ServerResult(FALSE, FALSE, Undefined, Undefined)

\* the try block of createEbayListingWithUrls and of createEbayBookListing:
\* build, call, parse
CreateTry(request, reply) ==
  IF request.threw THEN ServerResult(TRUE, FALSE, request.error, Undefined)
  ELSE LET r == callEbayTradingAPI(reply)
       IN IF r.threw THEN ServerResult(TRUE, FALSE, r.error, Undefined)
          ELSE LET p == parseEbayResponse(r.data)
               IN ServerResult(FALSE, p.success, p.error, p.itemId)

\* catch (error) { return { success: false, error: error.message, .. } }
Caught(t) ==
  IF t.threw THEN ServerResult(FALSE, FALSE, t.error, Undefined) ELSE t

createEbayListingWithUrls_Rethrows(request, reply) == CreateTry(request, reply)

createEbayListingWithUrls(request, reply) == Caught(CreateTry(request, reply))

createEbayBookListing(request, reply) == Caught(CreateTry(request, reply))

\* ------------------------------------------------------------ the client
ClientRes(state, success, error, errors) ==
  [state |-> state, success |-> success, error |-> error,
   validationErrors |-> errors]
NoClientRes == ClientRes("pending", FALSE, Undefined, {})

\* validateBookListing(bookData).errors, for a listing with a price, without
\* ISBN and category
validateBookListing(l) ==
  (IF l.title = "" THEN {"Title is required"} ELSE {})
    \cup (IF l.author = "" THEN {"Author is required"} ELSE {})
    \cup (IF ~Falsy(l.condition) /\ l.condition \notin {"Very Good", "Good", "Acceptable"}
            THEN {"Invalid condition for books. Must be: Very Good, Good, Acceptable"}
            ELSE {})
    \cup (IF Len(HostedPhotos(l)) = 0 THEN {"Hosted photos are required"} ELSE {})

BookConditionMap == [c \in {"Very Good", "Good", "Acceptable"} |->
                       IF c = "Acceptable" THEN "Acceptable" ELSE "Used"]

mapBookConditionToEbay(condition) ==
  IF Falsy(ObjectGet(BookConditionMap, condition)) THEN "Used"
  ELSE ObjectGet(BookConditionMap, condition)

\* what the builder is given: listingData of /api/list-to-ebay-with-urls
\* from the body postSingleListing sends
GeneralListing(l) ==
  [title |-> TextOf(l.title), description |-> <<"Dune">>,
   condition |-> l.condition, category |-> {},
   listingType |-> "GENERAL_LISTING", itemSpecifics |-> <<>>]

\* formattedBookListing of /api/list-book-to-ebay from formatBookDataForEbay
BookFictionCategory == {"book", "fiction", "literature"}
BookListing(l) ==
  [title |-> TextOf(l.title), description |-> <<"Dune">>,
   condition |-> mapBookConditionToEbay(l.condition),
   category |-> BookFictionCategory,
   listingType |-> "BOOK_ITEM",
   itemSpecifics |-> << Entry("Author", TextOf(l.author)) >>]

RequestOf(path, l) ==
  IF path = "general" THEN buildEbayXMLRequest(GeneralListing(l), HostedUrls(l))
  ELSE buildEbayBookXMLRequest(BookListing(l), BookPhotos(l))

\* the conditionID constant, the first statement of both builders
ConditionIDOf(path, l) ==
  IF path = "general" THEN getEbayConditionID(GeneralListing(l).condition)
  ELSE getEbayConditionID(BookListing(l).condition)

\* what photoUrls.map(url => `<PictureURL>${escapeXml(url)}</PictureURL>`)
\* puts between the tags, in both builders
PictureURLsOf(path, l) ==
  IF path = "general" THEN PictureURLs(HostedUrls(l))
  ELSE PictureURLs(BookPhotos(l))

\* ---------------------------------------------------------- the endpoints
EndpointRes(status, success, error, itemId) ==
  [status |-> status, success |-> success, error |-> error, itemId |-> itemId]
NoEndpointRes == EndpointRes(0, FALSE, Undefined, Undefined)

\* the 400 answers, Undefined when the body passes
EndpointValidation(path, l) ==
  IF path = "general"
    THEN IF l.title = "" THEN "Missing required listing fields (title, price)"
         ELSE IF Len(HostedUrls(l)) = 0 THEN "No hosted photo URLs provided"
         ELSE Undefined
    ELSE IF l.title = "" THEN "Book title is required"
         ELSE IF l.author = "" THEN "Book author is required"
         ELSE IF Len(BookPhotos(l)) = 0 THEN "Book photos are required"
         ELSE Undefined

\* if (ebayResult.success) res.json(..) else res.status(500).json(..); an
\* exception reaches the endpoint's own catch, which answers 500 too
EndpointAnswer(result) ==
  IF ~result.threw /\ result.success
    THEN EndpointRes(200, TRUE, Undefined, result.itemId)
    ELSE EndpointRes(500, FALSE, result.error, Undefined)

\* postSingleListing from the response on: every throw is caught
PostSingleAfterResponse(res) ==
  IF res.status # 200
    THEN ClientRes("returned", FALSE, "HTTP " \o ToString(res.status), {})
  ELSE IF res.success THEN ClientRes("returned", TRUE, Undefined, {})
  ELSE ClientRes("returned", FALSE,
                 IF Falsy(res.error) THEN "Unknown eBay error" ELSE res.error, {})

\* postBookToEbay from the response on: its catch throws the error again
PostBookAfterResponse(res) ==
  IF res.status # 200
    THEN ClientRes("threw", FALSE,
                   "HTTP error! status: " \o ToString(res.status), {})
    ELSE ClientRes("returned", res.success, res.error, {})

ListInit ==
  /\ listPath \in {"general", "book"}
  /\ listListing \in PostedListings
  /\ listPc = "client"
  /\ tradingReply = NoReply
  /\ tradingCalls = 0
  /\ conditionID = Undefined
  /\ pictureURLs = <<>>
  /\ serverResult = NoServerResult
  /\ endpointRes = NoEndpointRes
  /\ clientRes = NoClientRes

ListIdle ==
  /\ listPath = "general"
  /\ listListing = [title |-> "", author |-> "", condition |-> Undefined,
                    failed |-> 0, hosted |-> 0]
  /\ listPc = "idle"
  /\ tradingReply = NoReply
  /\ tradingCalls = 0
  /\ conditionID = Undefined
  /\ pictureURLs = <<>>
  /\ serverResult = NoServerResult
  /\ endpointRes = NoEndpointRes
  /\ clientRes = NoClientRes

\* postSingleListing up to the fetch
ClientPostsGeneral ==
  /\ listPc = "client"
  /\ listPath = "general"
  /\ IF Len(HostedPhotos(listListing)) = 0
       THEN /\ clientRes' = ClientRes("returned", FALSE,
                 "No photos available - listing requires photos for eBay posting", {})
            /\ listPc' = "done"
     ELSE IF Len(HostedUrls(listListing)) = 0
       THEN /\ clientRes' = ClientRes("returned", FALSE,
                 "No valid hosted photo URLs found - all photos failed to upload", {})
            /\ listPc' = "done"
       ELSE /\ listPc' = "endpoint"
            /\ UNCHANGED clientRes
  /\ UNCHANGED <<listPath, listListing, tradingReply, tradingCalls, conditionID,
                 pictureURLs,
                 serverResult, endpointRes>>
  /\ UNCHANGED <<analyzeVars, postVars, extractVars, parseVars, buildVars, uiVars, batchVars>>

\* postBookToEbay up to the fetch
ClientPostsBook ==
  /\ listPc = "client"
  /\ listPath = "book"
  /\ IF validateBookListing(listListing) # {}
       THEN /\ clientRes' = ClientRes("threw", FALSE, "Book validation failed",
                                      validateBookListing(listListing))
            /\ listPc' = "done"
       ELSE /\ listPc' = "endpoint"
            /\ UNCHANGED clientRes
  /\ UNCHANGED <<listPath, listListing, tradingReply, tradingCalls, conditionID,
                 pictureURLs,
                 serverResult, endpointRes>>
  /\ UNCHANGED <<analyzeVars, postVars, extractVars, parseVars, buildVars, uiVars, batchVars>>

\* the endpoint up to the await of callEbayTradingAPI, or to its answer when
\* the body is refused or the builder throws
EndpointHandles ==
  /\ listPc = "endpoint"
  /\ IF EndpointValidation(listPath, listListing) # Undefined
       THEN /\ endpointRes' = EndpointRes(400, FALSE,
                                EndpointValidation(listPath, listListing), Undefined)
            /\ listPc' = "responded"
            /\ UNCHANGED <<tradingCalls, conditionID, pictureURLs, serverResult>>
       ELSE /\ conditionID' = ConditionIDOf(listPath, listListing)
            /\ pictureURLs' = PictureURLsOf(listPath, listListing)
            /\ IF RequestOf(listPath, listListing).threw
                 THEN /\ serverResult' =
                           IF listPath = "general"
                             THEN createEbayListingWithUrls(
                                    RequestOf(listPath, listListing), NoReply)
                             ELSE createEbayBookListing(
                                    RequestOf(listPath, listListing), NoReply)
                      /\ endpointRes' = EndpointAnswer(serverResult')
                      /\ listPc' = "responded"
                      /\ UNCHANGED tradingCalls
                 ELSE /\ tradingCalls' = tradingCalls + 1
                      /\ listPc' = "trading"
                      /\ UNCHANGED <<serverResult, endpointRes>>
  /\ UNCHANGED <<listPath, listListing, tradingReply, clientRes>>
  /\ UNCHANGED <<analyzeVars, postVars, extractVars, parseVars, buildVars, uiVars, batchVars>>

\* the Trading API call settles; the endpoint parses and answers
TradingAnswers(reply) ==
  /\ listPc = "trading"
  /\ tradingReply' = reply
  /\ serverResult' =
       IF listPath = "general"
         THEN createEbayListingWithUrls(RequestOf(listPath, listListing), reply)
         ELSE createEbayBookListing(RequestOf(listPath, listListing), reply)
  /\ endpointRes' = EndpointAnswer(serverResult')
  /\ listPc' = "responded"
  /\ UNCHANGED <<listPath, listListing, tradingCalls, conditionID, pictureURLs,
                 clientRes>>
  /\ UNCHANGED <<analyzeVars, postVars, extractVars, parseVars, buildVars, uiVars, batchVars>>

\* the client's fetch resolves with the endpoint's response
ClientReceives ==
  /\ listPc = "responded"
  /\ clientRes' = IF listPath = "general"
                    THEN PostSingleAfterResponse(endpointRes)
                    ELSE PostBookAfterResponse(endpointRes)
  /\ listPc' = "done"
  /\ UNCHANGED <<listPath, listListing, tradingReply, tradingCalls, conditionID,
                 pictureURLs,
                 serverResult, endpointRes>>
  /\ UNCHANGED <<analyzeVars, postVars, extractVars, parseVars, buildVars, uiVars, batchVars>>

\* the client's fetch rejects: the response never arrives
ClientFetchFails ==
  /\ listPc = "responded"
  /\ clientRes' = ClientRes(IF listPath = "general" THEN "returned" ELSE "threw",
                            FALSE, "Network request failed", {})
  /\ listPc' = "done"
  /\ UNCHANGED <<listPath, listListing, tradingReply, tradingCalls, conditionID,
                 pictureURLs,
                 serverResult, endpointRes>>
  /\ UNCHANGED <<analyzeVars, postVars, extractVars, parseVars, buildVars, uiVars, batchVars>>

ListNext ==
  \/ ClientPostsGeneral
  \/ ClientPostsBook
  \/ EndpointHandles
  \/ \E reply \in TradingReplies : TradingAnswers(reply)
  \/ ClientReceives
  \/ ClientFetchFails

\* ------------------------------------------------ claims on posting a listing
ValidListing(l) == l.title # "" /\ l.author # "" /\ l.hosted > 0

ConditionRejected ==
  /\ clientRes.state = "threw"
  /\ \E e \in clientRes.validationErrors :
       e = "Invalid condition for books. Must be: Very Good, Good, Acceptable"

\* C14: a listing with condition Like New is not refused for its condition,
\* and the builder gets the ConditionID that Very Good gets on the same path
C14_LikeNewIsVeryGood ==
  (listListing.condition = "Like New" /\ ValidListing(listListing)) =>
    /\ ~ConditionRejected
    /\ listPc = "done" =>
         conditionID =
           ConditionIDOf(listPath, [listListing EXCEPT !.condition = "Very Good"])

\* C16: for a book with title, author and photos the book builder returns a
\* request and the Trading API is called
C16_BookPostingReachesTradingAPI ==
  (listPath = "book" /\ ValidListing(listListing)
     /\ listListing.condition \in {"Very Good", "Good", Undefined}
     /\ listPc \in {"responded", "done"}) =>
    /\ ~RequestOf(listPath, listListing).threw
    /\ tradingCalls = 1

FailureReplies ==
  {r \in TradingReplies :
     \/ r.kind \in NetworkFailures
     \/ r.kind = "body" /\ ~parseEbayResponse(r.body).success}

\* C19: on the general path a network failure or timeout of the Trading API
\* call ends as a rejection does: createEbayListingWithUrls returns
\* success = false with an error, the endpoint answers 500, and
\* postSingleListing returns success = false with an error; nothing is thrown
C19_NetworkFailureIsAFailureResult ==
  (listPath = "general" /\ tradingReply \in FailureReplies) =>
    /\ listPc \in {"responded", "done"} =>
         /\ ~serverResult.threw
         /\ ~serverResult.success
         /\ ~Falsy(serverResult.error)
         /\ endpointRes.status = 500
    /\ listPc = "done" =>
         /\ clientRes.state = "returned"
         /\ ~clientRes.success
         /\ ~Falsy(clientRes.error)

\* the Trading API call timed out and the client got the endpoint's answer
C19_Witness ==
  /\ listPath = "general"
  /\ listPc = "done"
  /\ tradingReply.kind = "timeout"
  /\ tradingCalls = 1
  /\ serverResult = ServerResult(FALSE, FALSE, "timeout of 30000ms exceeded", Undefined)
  /\ clientRes = ClientRes("returned", FALSE, "HTTP 500", {})

\* C26: on the general and on the book path the ConditionID of the request
\* built for the Trading API is the table code of the condition the posted
\* draft carries: Very Good 4000, Good 5000, Acceptable 6000.
C26_ConditionCodeOfTheDraft ==
  (conditionID /= Undefined /\ listListing.condition \in DOMAIN ConditionIdMap) =>
    conditionID = ConditionIdMap[listListing.condition]

\* the hosted photos of the draft whose upload succeeded
SuccessfullyHosted(l) ==
  {k \in 1..Len(HostedPhotos(l)) :
     HostedPhotos(l)[k].url /= NullUrl /\ HostedPhotos(l)[k].error = Undefined}

\* C27: every PictureURL of a request built for the Trading API, on the
\* general and on the book path, carries the url, not null, of a photo of the
\* draft whose upload succeeded.
C27_PictureURLsAreHostedPhotos ==
  conditionID /= Undefined =>
    \A k \in 1..Len(pictureURLs) :
      /\ pictureURLs[k] /= <<>>
      /\ \E j \in SuccessfullyHosted(listListing) :
           pictureURLs[k] = escapeXml(HostedPhotos(listListing)[j].url)

\* ======================================================= the results screen
\* handleCreateListing of PhotoUploadScreen; handleDataChange,
\* handlePostListing and handlePostAllListings of Results; the post button
\* of the listing cards
\* ------------------------------------------------------------------ bounds
MaxDrafts == 2
MaxEdits == 1
MaxPosts == 2

\* listing ids; Date.now() + Math.random() never repeats
DraftIds == 1..MaxDrafts

\* the data of a draft: 0 is parsedListing, k the k-th edit of the card
SourceData(edits, id) == edits[id]

Shown(id) == \E k \in 1..Len(generatedListings) : generatedListings[k] = id

Posted(id) == \E k \in 1..Len(ebayItems) : ebayItems[k].id = id

RECURSIVE Sum(_, _)
Sum(f, S) ==
  IF S = {} THEN 0
  ELSE LET x == CHOOSE y \in S : TRUE IN f[x] + Sum(f, S \ {x})

UIInit ==
  /\ generatedListings = <<>>
  /\ created = 0
  /\ listingEdits = [id \in DraftIds |-> 0]
  /\ isPosting = [id \in DraftIds |-> FALSE]
  /\ postData = [id \in DraftIds |-> 0]
  /\ postingAll = FALSE
  /\ listingsToPost = <<>>
  /\ submitted = [id \in DraftIds |-> 0]
  /\ ebayItems = <<>>

\* handleCreateListing(listingData, processingId)
handleCreateListing(error) ==
  /\ created < MaxDrafts
  /\ IF error
       THEN UNCHANGED <<generatedListings, created>>
       ELSE /\ generatedListings' = Append(generatedListings, created + 1)
            /\ created' = created + 1
  /\ UNCHANGED <<listingEdits, isPosting, postData, postingAll, listingsToPost,
                 submitted, ebayItems>>
  /\ UNCHANGED <<analyzeVars, postVars, extractVars, parseVars, buildVars, listVars, batchVars>>

\* a field of a card changes: handleDataChange(listingId, newData)
handleDataChange(id) ==
  /\ Shown(id)
  /\ listingEdits[id] < MaxEdits
  /\ listingEdits' = [listingEdits EXCEPT ![id] = @ + 1]
  /\ UNCHANGED <<generatedListings, created, isPosting, postData, postingAll,
                 listingsToPost, submitted, ebayItems>>
  /\ UNCHANGED <<analyzeVars, postVars, extractVars, parseVars, buildVars, listVars, batchVars>>

\* the card's post button: if (isPosting || !onPost) return; onPost(postData)
handlePostListing(id) ==
  /\ Shown(id)
  /\ ~isPosting[id]
  /\ Sum(submitted, DraftIds) < MaxPosts
  /\ isPosting' = [isPosting EXCEPT ![id] = TRUE]
  /\ postData' = [postData EXCEPT ![id] = SourceData(listingEdits, id)]
  /\ submitted' = [submitted EXCEPT ![id] = @ + 1]
  /\ UNCHANGED <<generatedListings, created, listingEdits, postingAll,
                 listingsToPost, ebayItems>>
  /\ UNCHANGED <<analyzeVars, postVars, extractVars, parseVars, buildVars, listVars, batchVars>>

\* the card's post settles: an alert, and setIsPosting(false)
PostListingSettles(id, success) ==
  /\ isPosting[id]
  /\ isPosting' = [isPosting EXCEPT ![id] = FALSE]
  /\ ebayItems' = IF success
                    THEN Append(ebayItems, [id |-> id, data |-> postData[id]])
                    ELSE ebayItems
  /\ UNCHANGED <<generatedListings, created, listingEdits, postData, postingAll,
                 listingsToPost, submitted>>
  /\ UNCHANGED <<analyzeVars, postVars, extractVars, parseVars, buildVars, listVars, batchVars>>

\* Post All, confirmed: every listing shown is posted, with its edit if any
handlePostAllListings ==
  /\ Len(generatedListings) > 1
  /\ ~postingAll
  /\ Sum(submitted, DraftIds) + Len(generatedListings) <= MaxPosts
  /\ postingAll' = TRUE
  /\ listingsToPost' =
       [k \in 1..Len(generatedListings) |->
          [id |-> generatedListings[k],
           data |-> SourceData(listingEdits, generatedListings[k])]]
  /\ submitted' = [id \in DraftIds |->
                     IF Shown(id) THEN submitted[id] + 1 ELSE submitted[id]]
  /\ UNCHANGED <<generatedListings, created, listingEdits, isPosting, postData,
                 ebayItems>>
  /\ UNCHANGED <<analyzeVars, postVars, extractVars, parseVars, buildVars, listVars, batchVars>>

\* postAllListings settles: an alert, and setPostingAll(false)
PostAllSettles(successes) ==
  /\ postingAll
  /\ postingAll' = FALSE
  /\ ebayItems' = ebayItems \o SelectSeq(listingsToPost, LAMBDA l : l.id \in successes)
  /\ listingsToPost' = <<>>
  /\ UNCHANGED <<generatedListings, created, listingEdits, isPosting, postData,
                 submitted>>
  /\ UNCHANGED <<analyzeVars, postVars, extractVars, parseVars, buildVars, listVars, batchVars>>

\* Clear All
handleClearAllListings ==
  /\ generatedListings # <<>>
  /\ generatedListings' = <<>>
  /\ UNCHANGED <<created, listingEdits, isPosting, postData, postingAll,
                 listingsToPost, submitted, ebayItems>>
  /\ UNCHANGED <<analyzeVars, postVars, extractVars, parseVars, buildVars, listVars, batchVars>>

UINext ==
  \/ \E error \in BOOLEAN : handleCreateListing(error)
  \/ \E id \in DraftIds : handleDataChange(id)
  \/ \E id \in DraftIds : handlePostListing(id)
  \/ \E id \in DraftIds, success \in BOOLEAN : PostListingSettles(id, success)
  \/ handlePostAllListings
  \/ \E successes \in SUBSET DraftIds : PostAllSettles(successes)
  \/ handleClearAllListings

\* ----------------------------------------------- claims on the results screen
\* C20: from the moment a listing has an item on the marketplace, its draft
\* data is not edited and no further creation request is made for it
C20_PostedListingIsFrozen ==
  [][\A id \in DraftIds :
       Posted(id) =>
         /\ listingEdits'[id] = listingEdits[id]
         /\ submitted'[id] = submitted[id]]_uiVars

\* ------------------------------------------------------- specifications
vars ==
  <<analyzeVars, postVars, extractVars, parseVars, buildVars, listVars, uiVars,
    batchVars>>

\* no listing is shown
UIIdle == UIInit

\* the other specifications leave the analyze request where it starts
AnalyzeIdle == AnalyzeInit /\ hostConfigured

\* one /api/analyze request
Init ==
  AnalyzeInit /\ PostInit /\ ExtractIdle /\ ParseIdle /\ BuildIdle /\ ListIdle
    /\ UIIdle /\ BatchIdle
Next == AnalyzeNext
Spec == Init /\ [][Next]_vars

\* one call of postAllListings
PostSpecInit ==
  AnalyzeIdle /\ PostInit /\ ExtractIdle /\ ParseIdle /\ BuildIdle /\ ListIdle
    /\ UIIdle /\ BatchIdle
PostSpec == PostSpecInit /\ [][PostNext]_vars

\* one response handed to a parser
ExtractSpecInit ==
  AnalyzeIdle /\ PostInit /\ ExtractInit /\ ParseIdle /\ BuildIdle /\ ListIdle
    /\ UIIdle /\ BatchIdle
ExtractNext ==
  \/ ClientParses
  \/ ServerParses
ExtractSpec == ExtractSpecInit /\ [][ExtractNext]_vars

\* one Trading API response handed to parseEbayResponse
ParseSpecInit ==
  AnalyzeIdle /\ PostInit /\ ExtractIdle /\ ParseInit /\ BuildIdle /\ ListIdle
    /\ UIIdle /\ BatchIdle
ParseNext == ParseEbay
ParseSpec == ParseSpecInit /\ [][ParseNext]_vars

\* one listing handed to a request builder
BuildSpecInit ==
  AnalyzeIdle /\ PostInit /\ ExtractIdle /\ ParseIdle /\ BuildInit /\ ListIdle
    /\ UIIdle /\ BatchIdle
BuildSpec == BuildSpecInit /\ [][BuildNext]_vars

\* one listing posted through its client function and endpoint
ListSpecInit ==
  AnalyzeIdle /\ PostInit /\ ExtractIdle /\ ParseIdle /\ BuildIdle /\ ListInit
    /\ UIIdle /\ BatchIdle
ListSpec == ListSpecInit /\ [][ListNext]_vars

\* the results screen from its first listing on
UISpecInit ==
  AnalyzeIdle /\ PostInit /\ ExtractIdle /\ ParseIdle /\ BuildIdle /\ ListIdle
    /\ UIInit /\ BatchIdle
UISpec == UISpecInit /\ [][UINext]_vars

\* one call of postListingsBatch
BatchSpecInit ==
  AnalyzeIdle /\ PostInit /\ ExtractIdle /\ ParseIdle /\ BuildIdle /\ ListIdle
    /\ UIIdle /\ BatchInit
BatchSpec == BatchSpecInit /\ [][BatchNext]_vars

\* the same call when the event loop keeps running: a settled promise is
\* continued, a request is answered and a timer fires
BatchFairSpec == BatchSpec /\ WF_vars(BatchNext)
====
